---- MODULE Spec2Model ----
(***************************************************************************)
(* A model of the traceviz response builder (server/go/util) and of the    *)
(* query dispatcher (querydispatcher).                                     *)
(*                                                                         *)
(* Several specifications share the variables below, each leaving the    *)
(* variables it does not use at their idle values:                         *)
(*   SpecST     - one stringTable driven by a sequence of stringIndex      *)
(*                calls                                                    *)
(*   SpecDatum  - one datumBuilder driven by withInt and withStr calls     *)
(*   SpecBuild  - one DataResponseBuilder driven by a single owner         *)
(*                (DataSeries, Child, With, Data)                          *)
(*   SpecOrder  - a single owner adding children and list properties       *)
(*   SpecCodec  - a Value encoded, decoded and read by the accessors       *)
(*   SpecLock   - goroutines calling stringIndex on one stringTable        *)
(*   SpecSeries - goroutines calling DataSeries on one builder             *)
(*   SpecDecode - UnmarshalJSON applied to arbitrary JSON documents        *)
(*   SpecUpdates - With calls over every kind of PropertyUpdate            *)
(*   SpecSink   - goroutines calling errors.add while Data is called       *)
(*   SpecStrings - goroutines setting string properties on their own nodes *)
(*   SpecRequests - one QueryDispatcher handling requests one after the    *)
(*                other                                                    *)
(*   Spec       - querydispatcher: New, then one HandleDataRequest whose   *)
(*                source handlers run concurrently on a shared builder     *)
(*                                                                         *)
(* Conventions.  A Go string is a TLA+ string.  A Go error is the sequence *)
(* of its message parts; the nil error is the empty sequence.  A *Datum is *)
(* its index in drb.datums (allocation order).  String indices are 0-based *)
(* as in the Go code, so stringsByIndex[i] of the Go code is               *)
(* stringsByIndex[i + 1] here.                                             *)
(***************************************************************************)
EXTENDS Integers, Sequences, FiniteSets, TLC

VARIABLES
    drb,          \* the DataResponseBuilder: st, errs, d and the Datums it allocated
    result,       \* what the last Data / HandleDataRequest call returned
    last,         \* history: the builder call a run observed, its arguments and the
                  \* drb before it; a run observes one call and ends there
    written,      \* history (SpecDatum): the value most recently supplied for each key
    failed,       \* history: the Datums on which a With call recorded an error
    calls,        \* history: the number of With calls made so far
    additions,    \* history (SpecST): the strings passed to stringIndex, in call order
    returned,     \* history (SpecST): the index each stringIndex call returned
    dss,          \* the dataSources handed to New (their supported-query lists)
    qd,           \* the QueryDispatcher New returned (or nil, with New's error)
    pc,           \* where the dispatching goroutine is
    req,          \* the DataRequest's SeriesRequests
    groupedReqs,  \* HandleDataRequest's groupedReqs map
    hstate,       \* per dataSource: "idle", "running" or "done"
    hops,         \* per dataSource: builder calls its handler has made so far
    owned,        \* per dataSource: the Datums whose builders its handler holds
    finished,     \* history: the handlers' returns (dataSource and error), in order
    invocations,  \* history: per dataSource, the request lists its handler was started with
    errg,         \* the errgroup: first error and whether its context is cancelled
    subject,      \* (SpecCodec) the Value under test
    wire,         \* (SpecCodec) what MarshalJSON returned for it; (SpecDecode) the
                  \* JSON document to decode
    decoded,      \* (SpecCodec, SpecDecode) what UnmarshalJSON made of that
    got,          \* (SpecCodec) what an Expect...Value accessor returned for subject
    procs,        \* (SpecLock, SpecSeries, SpecSink, SpecStrings) per goroutine: its
                  \* position and its locals
    mu,           \* (SpecLock, SpecSeries, SpecSink) the mutex: its readers and its writer
    made          \* history (SpecOrder): the Child calls made, in call order;
                  \* (SpecRequests) the series created for the current request

vars == <<drb, result, last, written, failed, calls, additions, returned, dss, qd, pc, req,
          groupedReqs, hstate, hops, owned, finished, invocations, errg, subject, wire,
          decoded, got, procs, mu, made>>

----------------------------------------------------------------------------
(* Bounds of the model *)

MaxAdds == 5
MaxSets == 3
MaxNodes == 3
MaxWith == 2
MaxUpdates == 3
MaxSources == 2
MaxSupported == 2
MaxSeriesReqs == 2
MaxHandlerOps == 3

----------------------------------------------------------------------------
(* Small helpers *)

EmptyMap == [x \in {} |-> 0]

\* m with key k set to v (a Go map assignment m[k] = v)
MapSet(m, k, v) == [x \in (DOMAIN m) \cup {k} |-> IF x = k THEN v ELSE m[x]]

Range(s) == {s[i] : i \in DOMAIN s}

SeqsUpTo(S, n) == UNION {[1..k -> S] : k \in 0..n}

NilErr == <<>>

----------------------------------------------------------------------------
(* stringTable *)

newStringTable == [stringsToIndices |-> EmptyMap, stringsByIndex |-> <<>>]

lookupStringIndex(st, str) ==
    IF str \in DOMAIN st.stringsToIndices
    THEN [idx |-> st.stringsToIndices[str], ok |-> TRUE]
    ELSE [idx |-> 0, ok |-> FALSE]

\* a stringIndex that takes the length of the list after the append as the index
stringIndexLocked_LengthAfterAppend(st, str) ==
    IF str \in DOMAIN st.stringsToIndices
    THEN [st |-> st, idx |-> st.stringsToIndices[str]]
    ELSE LET idx == Len(st.stringsByIndex) + 1
         IN [st |-> [stringsToIndices |-> MapSet(st.stringsToIndices, str, idx),
                     stringsByIndex |-> Append(st.stringsByIndex, str)],
             idx |-> idx]

\* the part of stringIndex that runs under the write lock
stringIndexLocked(st, str) ==
    IF str \in DOMAIN st.stringsToIndices
    THEN [st |-> st, idx |-> st.stringsToIndices[str]]
    ELSE LET idx == Len(st.stringsByIndex)
         IN [st |-> [stringsToIndices |-> MapSet(st.stringsToIndices, str, idx),
                     stringsByIndex |-> Append(st.stringsByIndex, str)],
             idx |-> idx]

\* a stringIndex that never finds an existing entry
stringIndex_AlwaysAppend(st, str) ==
    LET idx == Len(st.stringsByIndex)
    IN [st |-> [stringsToIndices |-> MapSet(st.stringsToIndices, str, idx),
                stringsByIndex |-> Append(st.stringsByIndex, str)],
        idx |-> idx]

stringIndex(st, str) ==
    LET found == lookupStringIndex(st, str)
    IN IF found.ok THEN [st |-> st, idx |-> found.idx]
       ELSE stringIndexLocked(st, str)

\* interning a list of strings in order: the table after, and the indices
RECURSIVE stringIndexAll(_, _)
stringIndexAll(st, strs) ==
    IF strs = <<>> THEN [st |-> st, idxs |-> <<>>]
    ELSE LET h == stringIndex(st, Head(strs))
             t == stringIndexAll(h.st, Tail(strs))
         IN [st |-> t.st, idxs |-> <<h.idx>> \o t.idxs]

----------------------------------------------------------------------------
(* errors *)

newErrors == [hasError |-> FALSE, errs |-> <<>>]

add(errs, err) == [hasError |-> TRUE, errs |-> Append(errs.errs, err)]

\* errors.Error joins the messages; here the parts of all errors in order
RECURSIVE Error(_)
Error(errs) == IF errs = <<>> THEN <<>> ELSE Head(errs) \o Error(Tail(errs))

toError(errs) == IF Len(errs.errs) = 0 THEN NilErr ELSE Error(errs.errs)

----------------------------------------------------------------------------
(* Values.  A V is its tag T, the Go type R of the payload it holds and    *)
(* the payload V as a sequence of integers (a scalar is a one-element      *)
(* sequence).                                                              *)

StringIndexValueType == 2
StringIndicesValueType == 4
IntegerValueType == 5

StringIndexValue(strIdx) == [T |-> StringIndexValueType, R |-> "int64", V |-> <<strIdx>>]

StringIndicesValue(strIdxs) == [T |-> StringIndicesValueType, R |-> "[]int64", V |-> strIdxs]

IntegerValue(i) == [T |-> IntegerValueType, R |-> "int64", V |-> <<i>>]

expectStringIndicesValue(val) ==
    IF val.T # StringIndicesValueType
    THEN [v |-> <<>>, err |-> <<"expected value type 'str_idxs'">>]
    ELSE [v |-> val.V, err |-> NilErr]

----------------------------------------------------------------------------
(* DataResponseBuilder and datumBuilder.  b is the response builder's      *)
(* state; a datumBuilder is the index n of its Datum in b.datums, its errs *)
(* and st being b.errs and b.st.  b.panicked tells that a call on the      *)
(* builder panicked; the builder is then as the panic left it.             *)

NewDataResponseBuilder ==
    [st |-> newStringTable,
     errs |-> newErrors,
     d |-> [StringTable |-> <<>>, DataSeries |-> <<>>],
     datums |-> <<>>,
     panicked |-> FALSE]

\* the Datum of a new datumBuilder
newDatumBuilder == [Properties |-> EmptyMap, Children |-> <<>>]

withStr(b, n, key, value) ==
    LET k == stringIndex(b.st, key)
        v == stringIndex(k.st, value)
    IN [b EXCEPT !.st = v.st,
                 !.datums[n].Properties = MapSet(@, k.idx, StringIndexValue(v.idx))]

withStrs(b, n, key, values) ==
    LET vs == stringIndexAll(b.st, values)
        k == stringIndex(vs.st, key)
    IN [b EXCEPT !.st = k.st,
                 !.datums[n].Properties = MapSet(@, k.idx, StringIndicesValue(vs.idxs))]

\* an appendStrs that puts the new values before the ones the property holds
appendStrs_Prepend(b, n, key, values) ==
    LET k == stringIndex(b.st, key)
        b0 == [b EXCEPT !.st = k.st]
        props == b.datums[n].Properties
    IN IF k.idx \notin DOMAIN props THEN withStrs(b0, n, key, values)
       ELSE LET val == props[k.idx]
                e == expectStringIndicesValue(val)
                b1 == IF e.err # NilErr THEN [b0 EXCEPT !.errs = add(@, e.err)] ELSE b0
                vs == stringIndexAll(b1.st, values)
            IN [b1 EXCEPT !.st = vs.st,
                          !.datums[n].Properties[k.idx] =
                              [T |-> val.T, R |-> "[]int64", V |-> vs.idxs \o e.v]]

appendStrs(b, n, key, values) ==
    LET k == stringIndex(b.st, key)
        b0 == [b EXCEPT !.st = k.st]
        props == b.datums[n].Properties
    IN IF k.idx \notin DOMAIN props THEN withStrs(b0, n, key, values)
       ELSE LET val == props[k.idx]
                e == expectStringIndicesValue(val)
                b1 == IF e.err # NilErr THEN [b0 EXCEPT !.errs = add(@, e.err)] ELSE b0
                vs == stringIndexAll(b1.st, values)
            IN [b1 EXCEPT !.st = vs.st,
                          !.datums[n].Properties[k.idx] =
                              [T |-> val.T, R |-> "[]int64", V |-> e.v \o vs.idxs]]

\* a withInt that leaves a key alone once it holds a value
withInt_KeepFirst(b, n, key, value) ==
    LET k == stringIndex(b.st, key)
    IN IF k.idx \in DOMAIN b.datums[n].Properties THEN [b EXCEPT !.st = k.st]
       ELSE [b EXCEPT !.st = k.st,
                      !.datums[n].Properties = MapSet(@, k.idx, IntegerValue(value))]

withInt(b, n, key, value) ==
    LET k == stringIndex(b.st, key)
    IN [b EXCEPT !.st = k.st,
                 !.datums[n].Properties = MapSet(@, k.idx, IntegerValue(value))]

(* A PropertyUpdate is a record naming the closure the Go constructor      *)
(* returns and the arguments it captured.                                  *)

PU(op, key, strs, ints, err, ups) ==
    [op |-> op, key |-> key, strs |-> strs, ints |-> ints, err |-> err, ups |-> ups]

EmptyUpdate == PU("nil", "", <<>>, <<>>, NilErr, <<>>)

ErrorProperty(err) == PU("ErrorProperty", "", <<>>, <<>>, err, <<>>)

StringProperty(key, value) == PU("StringProperty", key, <<value>>, <<>>, NilErr, <<>>)

StringsProperty(key, values) == PU("StringsProperty", key, values, <<>>, NilErr, <<>>)

StringsPropertyExtended(key, values) ==
    PU("StringsPropertyExtended", key, values, <<>>, NilErr, <<>>)

IntegerProperty(key, value) == PU("IntegerProperty", key, <<>>, <<value>>, NilErr, <<>>)

Chain(updates) == PU("Chain", "", <<>>, <<>>, NilErr, updates)

If(predicate, du) == IF predicate THEN du ELSE EmptyUpdate

\* the closure holds the branch the predicate selects
IfElse(predicate, t, f) ==
    PU("IfElse", "", <<>>, <<>>, NilErr, <<IF predicate THEN t ELSE f>>)

\* Nothing(key)
Nothing(key) == EmptyUpdate

RECURSIVE With(_, _, _)
RECURSIVE WithLoop(_, _, _, _)
RECURSIVE applyUpdate(_, _, _)

\* calling the non-nil PropertyUpdate u on datumBuilder n: the builder after, and
\* the error u returned
applyUpdate(b, n, u) ==
    CASE u.op = "ErrorProperty" -> [b |-> b, err |-> u.err]
      [] u.op = "StringProperty" -> [b |-> withStr(b, n, u.key, u.strs[1]), err |-> NilErr]
      [] u.op = "StringsProperty" -> [b |-> withStrs(b, n, u.key, u.strs), err |-> NilErr]
      [] u.op = "StringsPropertyExtended" ->
            [b |-> appendStrs(b, n, u.key, u.strs), err |-> NilErr]
      [] u.op = "IntegerProperty" -> [b |-> withInt(b, n, u.key, u.ints[1]), err |-> NilErr]
      [] u.op = "Chain" -> [b |-> With(b, n, u.ups), err |-> NilErr]
      [] u.op = "IfElse" ->
            IF u.ups[1].op = "nil" THEN [b |-> [b EXCEPT !.panicked = TRUE], err |-> NilErr]
            ELSE applyUpdate(b, n, u.ups[1])

\* a With loop that carries on after an update has failed
WithLoop_NoBreak(b, n, updates, i) ==
    IF i > Len(updates) THEN b
    ELSE IF updates[i].op = "nil" THEN WithLoop(b, n, updates, i + 1)
    ELSE LET r == applyUpdate(b, n, updates[i])
         IN IF r.err # NilErr
            THEN WithLoop([r.b EXCEPT !.errs = add(@, r.err)], n, updates, i + 1)
            ELSE WithLoop(r.b, n, updates, i + 1)

\* the loop of With, from the i-th update on; a panic ends it
WithLoop(b, n, updates, i) ==
    IF i > Len(updates) \/ b.panicked THEN b
    ELSE IF updates[i].op = "nil" THEN WithLoop(b, n, updates, i + 1)
    ELSE LET r == applyUpdate(b, n, updates[i])
         IN IF r.err # NilErr
            THEN [r.b EXCEPT !.errs = add(@, r.err)]
            ELSE WithLoop(r.b, n, updates, i + 1)

\* a With that runs its updates whatever the error sink holds
With_NoGuard(b, n, updates) == WithLoop(b, n, updates, 1)

With(b, n, updates) ==
    IF ~b.errs.hasError THEN WithLoop(b, n, updates, 1) ELSE b

\* a Child that, like With, does nothing once the error sink holds an error
Child_GuardedByErrors(b, n) ==
    IF b.errs.hasError THEN b
    ELSE LET child == Len(b.datums) + 1
         IN [b EXCEPT !.datums = [Append(@, newDatumBuilder) EXCEPT
                                     ![n].Children = Append(@, child)]]

\* a Child that hands out the receiver's own Datum as the child
Child_AppendsReceiver(b, n) ==
    [b EXCEPT !.datums = [Append(@, newDatumBuilder) EXCEPT ![n].Children = Append(@, n)]]

\* the Datum of the new child is the last of b.datums
Child(b, n) ==
    LET child == Len(b.datums) + 1
    IN [b EXCEPT !.datums = [Append(@, newDatumBuilder) EXCEPT
                                ![n].Children = Append(@, child)]]

\* a DataSeries whose append loses the series added before it
DataSeries_LostAppend(b, seriesReq) ==
    LET root == Len(b.datums) + 1
    IN [b EXCEPT !.datums = Append(@, newDatumBuilder),
                 !.d.DataSeries =
                     <<[SeriesName |-> seriesReq.SeriesName, Root |-> root]>>]

\* the root Datum of the new series is the last of b.datums
DataSeries(b, seriesReq) ==
    LET root == Len(b.datums) + 1
    IN [b EXCEPT !.datums = Append(@, newDatumBuilder),
                 !.d.DataSeries =
                     Append(@, [SeriesName |-> seriesReq.SeriesName, Root |-> root])]

NilData == [nil |-> TRUE, StringTable |-> <<>>, DataSeries |-> <<>>, datums |-> <<>>]

\* what a *Data points to
DataOf(b) ==
    [nil |-> FALSE, StringTable |-> b.d.StringTable, DataSeries |-> b.d.DataSeries,
     datums |-> b.datums]

\* a Data that returns the data whatever the error sink holds
Data_IgnoreErrors(b) ==
    LET b1 == [b EXCEPT !.d.StringTable = b.st.stringsByIndex]
    IN [b |-> b1, data |-> DataOf(b1), err |-> NilErr]

\* the builder after the call, and the (*Data, error) returned
Data(b) ==
    IF b.errs.hasError
    THEN [b |-> b, data |-> NilData, err |-> toError(b.errs)]
    ELSE LET b1 == [b EXCEPT !.d.StringTable = b.st.stringsByIndex]
         IN [b |-> b1, data |-> DataOf(b1), err |-> NilErr]

----------------------------------------------------------------------------
(* Values the variables of the other specifications rest at *)

NoCall == [op |-> "none", n |-> 0, updates |-> <<>>, pre |-> NewDataResponseBuilder]

NoResult == [returned |-> FALSE, data |-> NilData, err |-> NilErr]

newErrgroup == [err |-> NilErr, cancelled |-> FALSE]

NilDispatcher == [nil |-> TRUE, dataSources |-> 0, dataSeriesQueryHandlers |-> EmptyMap,
                  err |-> NilErr]

builderVars == <<result, last, written, failed, calls>>

codecVars == <<subject, wire, decoded, got>>

procVars == <<procs, mu>>

\* the variables the builder and dispatcher specifications never use
stVars == <<additions, returned, codecVars, procVars, made>>

dispatcherVars == <<dss, qd, pc, req, groupedReqs, hstate, hops, owned, finished,
                    invocations, errg>>

BuilderIdle ==
    result = NoResult /\ last = NoCall /\ written = EmptyMap /\ failed = {} /\ calls = 0

NoValue == [T |-> 0, R |-> "nil", V |-> <<>>]

NoWire == [done |-> FALSE, ok |-> FALSE, json |-> <<>>]

NoDecoded == [done |-> FALSE, panic |-> FALSE, v |-> NoValue, err |-> NilErr]

NoGot == [T |-> 0, V |-> <<>>, err |-> NilErr]

newMutex == [readers |-> {}, writer |-> 0]

CodecIdle == subject = NoValue /\ wire = NoWire /\ decoded = NoDecoded /\ got = NoGot

ProcIdle == procs = <<>> /\ mu = newMutex

STIdle ==
    additions = <<>> /\ returned = <<>> /\ CodecIdle /\ ProcIdle /\ made = <<>>

DispatcherIdle ==
    /\ dss = <<>>
    /\ qd = NilDispatcher
    /\ pc = "off"
    /\ req = <<>>
    /\ groupedReqs = EmptyMap
    /\ hstate = <<>>
    /\ hops = <<>>
    /\ owned = <<>>
    /\ finished = <<>>
    /\ invocations = <<>>
    /\ errg = newErrgroup

----------------------------------------------------------------------------
(* querydispatcher.  A dataSource is the list its SupportedDataSeriesQueries *)
(* returns; dataSources are numbered from 1 (dsIdx + 1 of the Go code).     *)

RECURSIVE NewLoop(_, _, _, _)
\* the loops of New, from the i-th query name of dataSource dsIdx on
NewLoop(handlers, sources, dsIdx, i) ==
    IF dsIdx > Len(sources)
    THEN [nil |-> FALSE, dataSources |-> Len(sources),
          dataSeriesQueryHandlers |-> handlers, err |-> NilErr]
    ELSE IF i > Len(sources[dsIdx]) THEN NewLoop(handlers, sources, dsIdx + 1, 1)
    ELSE LET traceQueryName == sources[dsIdx][i]
         IN IF traceQueryName \in DOMAIN handlers
            THEN [nil |-> TRUE, dataSources |-> 0, dataSeriesQueryHandlers |-> EmptyMap,
                  err |-> <<"multiple dataSources handle trace query", traceQueryName>>]
            ELSE NewLoop(MapSet(handlers, traceQueryName, dsIdx), sources, dsIdx, i + 1)

New(sources) == NewLoop(EmptyMap, sources, 1, 1)

RECURSIVE groupSeriesReqs(_, _, _)

\* a grouping that leaves out the sub-queries no dataSource supports
groupSeriesReqs_SkipUnknown(handlers, seriesRequests, grouped) ==
    IF seriesRequests = <<>> THEN [ok |-> TRUE, groupedReqs |-> grouped, err |-> NilErr]
    ELSE LET seriesReq == Head(seriesRequests)
         IN IF seriesReq.QueryName \notin DOMAIN handlers
            THEN groupSeriesReqs(handlers, Tail(seriesRequests), grouped)
            ELSE LET dsIdx == handlers[seriesReq.QueryName]
                     sofar == IF dsIdx \in DOMAIN grouped THEN grouped[dsIdx] ELSE <<>>
                 IN groupSeriesReqs(handlers, Tail(seriesRequests),
                                    MapSet(grouped, dsIdx, Append(sofar, seriesReq)))

\* a grouping that keeps only the last sub-query of each dataSource
groupSeriesReqs_Overwrite(handlers, seriesRequests, grouped) ==
    IF seriesRequests = <<>> THEN [ok |-> TRUE, groupedReqs |-> grouped, err |-> NilErr]
    ELSE LET seriesReq == Head(seriesRequests)
         IN IF seriesReq.QueryName \notin DOMAIN handlers
            THEN [ok |-> FALSE, groupedReqs |-> EmptyMap,
                  err |-> <<"unsupported data query", seriesReq.QueryName>>]
            ELSE LET dsIdx == handlers[seriesReq.QueryName]
                 IN groupSeriesReqs(handlers, Tail(seriesRequests),
                                    MapSet(grouped, dsIdx, <<seriesReq>>))

\* the first loop of HandleDataRequest: groupedReqs, or the error it returns
groupSeriesReqs(handlers, seriesRequests, grouped) ==
    IF seriesRequests = <<>> THEN [ok |-> TRUE, groupedReqs |-> grouped, err |-> NilErr]
    ELSE LET seriesReq == Head(seriesRequests)
         IN IF seriesReq.QueryName \notin DOMAIN handlers
            THEN [ok |-> FALSE, groupedReqs |-> EmptyMap,
                  err |-> <<"unsupported data query", seriesReq.QueryName>>]
            ELSE LET dsIdx == handlers[seriesReq.QueryName]
                     sofar == IF dsIdx \in DOMAIN grouped THEN grouped[dsIdx] ELSE <<>>
                 IN groupSeriesReqs(handlers, Tail(seriesRequests),
                                    MapSet(grouped, dsIdx, Append(sofar, seriesReq)))

\* an errgroup that keeps the error of the function that returned last
errgReturn_KeepLast(g, err) ==
    IF err # NilErr THEN [err |-> err, cancelled |-> TRUE] ELSE g

\* an errgroup that keeps the first error and leaves its context alone
errgReturn_NoCancel(g, err) ==
    IF err # NilErr /\ g.err = NilErr THEN [err |-> err, cancelled |-> g.cancelled] ELSE g

\* errgroup: a function passed to Go has returned err; the first non-nil error is
\* kept and cancels the group's context
errgReturn(g, err) ==
    IF err # NilErr /\ g.err = NilErr THEN [err |-> err, cancelled |-> TRUE] ELSE g

\* a HandleDataRequest that ignores what errg.Wait returns
afterWait_IgnoreErr(g, b) == LET r == Data(b) IN [b |-> r.b, data |-> r.data, err |-> r.err]

\* a HandleDataRequest that adds the errors of the sink to the handler's error
afterWait_JoinsSink(g, b) ==
    IF g.err # NilErr THEN [b |-> b, data |-> NilData, err |-> g.err \o toError(b.errs)]
    ELSE LET r == Data(b) IN [b |-> r.b, data |-> r.data, err |-> r.err]

\* HandleDataRequest once errg.Wait has returned: the builder, and what is returned
afterWait(g, b) ==
    IF g.err # NilErr THEN [b |-> b, data |-> NilData, err |-> g.err]
    ELSE LET r == Data(b) IN [b |-> r.b, data |-> r.data, err |-> r.err]

----------------------------------------------------------------------------
(* SpecST: a sequence of stringIndex calls on one stringTable, as in       *)
(* TestStringTable.                                                        *)

Strings == {"ant", "bee", "caterpillar"}

InitST == drb = NewDataResponseBuilder /\ STIdle /\ BuilderIdle /\ DispatcherIdle

StringIndexCall(str) ==
    /\ Len(additions) < MaxAdds
    /\ LET r == stringIndex(drb.st, str)
       IN /\ drb' = [drb EXCEPT !.st = r.st]
          /\ additions' = Append(additions, str)
          /\ returned' = Append(returned, r.idx)
    /\ UNCHANGED <<builderVars, dispatcherVars, codecVars, procVars, made>>

NextST == \E str \in Strings : StringIndexCall(str)

SpecST == InitST /\ [][NextST]_vars

\* the distinct elements of strs, in first-seen order
RECURSIVE FirstSeen(_)
FirstSeen(strs) ==
    IF strs = <<>> THEN <<>>
    ELSE LET front == FirstSeen(SubSeq(strs, 1, Len(strs) - 1))
             x == strs[Len(strs)]
         IN IF x \in Range(front) THEN front ELSE Append(front, x)

PositionIn(seq, x) == CHOOSE i \in 1..Len(seq) : seq[i] = x

\* C7: after any sequence of stringIndex calls the table is the list of the distinct
\* strings in first-seen order, and every call returned the 0-based position of its
\* string in that list (so a string already interned got the index it was first
\* given, and the k-th distinct string got index k).
C7_InternFirstSeenOrder ==
    /\ drb.st.stringsByIndex = FirstSeen(additions)
    /\ \A i \in DOMAIN additions :
          returned[i] = PositionIn(FirstSeen(additions), additions[i]) - 1

C7_Witness ==
    /\ additions = <<"ant", "bee", "ant", "ant", "bee">>
    /\ returned = <<0, 1, 0, 0, 1>>
    /\ drb.st.stringsByIndex = <<"ant", "bee">>

----------------------------------------------------------------------------
(* SpecDatum: one datumBuilder on a new string table, driven by a chain of *)
(* withInt and withStr calls, as in TestDatumBuilder.                      *)

Keys == {"x", "y"}

IntValues == {5, 10}

StrValues == {"a", "x"}

InitDatum ==
    /\ drb = [NewDataResponseBuilder EXCEPT !.datums = <<newDatumBuilder>>]
    /\ BuilderIdle /\ STIdle /\ DispatcherIdle

DWithInt(key, value) ==
    /\ calls < MaxSets
    /\ drb' = withInt(drb, 1, key, value)
    /\ written' = MapSet(written, key, [type |-> "int", int |-> value, str |-> ""])
    /\ calls' = calls + 1
    /\ UNCHANGED <<result, last, failed, stVars, dispatcherVars>>

DWithStr(key, value) ==
    /\ calls < MaxSets
    /\ drb' = withStr(drb, 1, key, value)
    /\ written' = MapSet(written, key, [type |-> "str", int |-> 0, str |-> value])
    /\ calls' = calls + 1
    /\ UNCHANGED <<result, last, failed, stVars, dispatcherVars>>

NextDatum ==
    \/ \E key \in Keys, value \in IntValues : DWithInt(key, value)
    \/ \E key \in Keys, value \in StrValues : DWithStr(key, value)

SpecDatum == InitDatum /\ [][NextDatum]_vars

\* the keys of Datum n's Properties that index the string key
KeyIndices(b, n, key) ==
    {k \in DOMAIN b.datums[n].Properties :
        k + 1 \in DOMAIN b.st.stringsByIndex /\ b.st.stringsByIndex[k + 1] = key}

\* a stored Value read back: an integer, or the string a string index stands for
ReadBack(b, v) ==
    IF v.T = IntegerValueType /\ v.R = "int64" /\ Len(v.V) = 1
    THEN [type |-> "int", int |-> v.V[1], str |-> ""]
    ELSE IF v.T = StringIndexValueType /\ v.R = "int64" /\ Len(v.V) = 1
              /\ v.V[1] + 1 \in DOMAIN b.st.stringsByIndex
    THEN [type |-> "str", int |-> 0, str |-> b.st.stringsByIndex[v.V[1] + 1]]
    ELSE [type |-> "other", int |-> 0, str |-> ""]

\* C8: within one Datum, after any sequence of property-setting updates every key
\* that was set has exactly one entry, holding the value most recently supplied for
\* it, and a key never set has none.
C8_LastWriteWins ==
    \A key \in Keys :
        LET ks == KeyIndices(drb, 1, key)
        IN IF key \in DOMAIN written
           THEN /\ Cardinality(ks) = 1
                /\ \A k \in ks : ReadBack(drb, drb.datums[1].Properties[k]) = written[key]
           ELSE ks = {}

\* x set to 5 and then to 10: one entry for x, with value 10
C8_Witness ==
    /\ calls = 2
    /\ written = [x |-> [type |-> "int", int |-> 10, str |-> ""]]
    /\ drb.st.stringsByIndex = <<"x">>
    /\ DOMAIN drb.datums[1].Properties = {0}
    /\ drb.datums[1].Properties[0] = IntegerValue(10)

----------------------------------------------------------------------------
(* SpecBuild: one DataResponseBuilder used by a single owner, as in        *)
(* TestPropertyUpdates and TestDataResponseBuilding: DataSeries, Child and *)
(* With calls in any order, then Data.  Any call may be the one the run    *)
(* observes: it is then recorded in last, with the builder as it was       *)
(* before the call, and the run ends.                                      *)

Oops == <<"oops">>

\* the PropertyUpdates the owner picks from
Updates ==
    {IntegerProperty("x", 5), IntegerProperty("x", 10), ErrorProperty(Oops)}

\* the lists of updates given to one With call: no update twice in a row
UpdateLists ==
    {updates \in SeqsUpTo(Updates, MaxUpdates) \ {<<>>} :
        \A i \in 1..(Len(updates) - 1) : updates[i] # updates[i + 1]}

SeriesRequest(queryName, seriesName) == [QueryName |-> queryName, SeriesName |-> seriesName]

Observed(observe, call) == IF observe THEN call ELSE NoCall

InitBuild == drb = NewDataResponseBuilder /\ BuilderIdle /\ STIdle /\ DispatcherIdle

BDataSeries(seriesName, observe) ==
    /\ last = NoCall
    /\ Len(drb.datums) < MaxNodes
    /\ drb' = DataSeries(drb, SeriesRequest("series", seriesName))
    /\ last' = Observed(observe, [op |-> "DataSeries", n |-> Len(drb.datums) + 1,
                                  updates |-> <<>>, pre |-> drb])
    /\ UNCHANGED <<result, written, failed, calls, stVars, dispatcherVars>>

BChild(n, observe) ==
    /\ last = NoCall
    /\ Len(drb.datums) < MaxNodes
    /\ drb' = Child(drb, n)
    /\ last' = Observed(observe, [op |-> "Child", n |-> n, updates |-> <<>>, pre |-> drb])
    /\ UNCHANGED <<result, written, failed, calls, stVars, dispatcherVars>>

BWith(n, updates, observe) ==
    /\ last = NoCall
    /\ calls < MaxWith
    /\ drb' = With(drb, n, updates)
    /\ last' = Observed(observe, [op |-> "With", n |-> n, updates |-> updates, pre |-> drb])
    /\ failed' = IF Len(drb'.errs.errs) > Len(drb.errs.errs) THEN failed \cup {n}
                 ELSE failed
    /\ calls' = calls + 1
    /\ UNCHANGED <<result, written, stVars, dispatcherVars>>

BData ==
    /\ last = NoCall
    /\ LET r == Data(drb)
       IN /\ drb' = r.b
          /\ result' = [returned |-> TRUE, data |-> r.data, err |-> r.err]
    /\ last' = [op |-> "Data", n |-> 0, updates |-> <<>>, pre |-> drb]
    /\ UNCHANGED <<written, failed, calls, stVars, dispatcherVars>>

NextBuild ==
    \/ last = NoCall /\ \E seriesName \in {"1"}, observe \in BOOLEAN :
          BDataSeries(seriesName, observe)
    \/ last = NoCall /\ \E n \in 1..Len(drb.datums), observe \in BOOLEAN : BChild(n, observe)
    \/ last = NoCall /\ calls < MaxWith
          /\ \E n \in 1..Len(drb.datums), updates \in UpdateLists, observe \in BOOLEAN :
                BWith(n, updates, observe)
    \/ BData

SpecBuild == InitBuild /\ [][NextBuild]_vars

\* the position of the first update of the list that reports failure, 0 if none does
FirstFailure(updates) ==
    LET fails == {i \in DOMAIN updates :
                     updates[i].op = "ErrorProperty" /\ updates[i].err # NilErr}
    IN IF fails = {} THEN 0 ELSE CHOOSE i \in fails : \A j \in fails : i <= j

\* every update of the list applied to Datum n, one after the other
RECURSIVE ApplyAll(_, _, _)
ApplyAll(b, n, updates) ==
    IF updates = <<>> THEN b
    ELSE IF Head(updates).op = "nil" THEN ApplyAll(b, n, Tail(updates))
    ELSE ApplyAll(applyUpdate(b, n, Head(updates)).b, n, Tail(updates))

\* C9: when a With call that runs its updates u1..un has uk as the first to report
\* failure, the builder is left as u1..u(k-1) alone leave it (their properties stay
\* on the node, nothing of u(k+1)..un is applied) with uk's error added to the sink.
C9_FailFastWithinCall ==
    (last.op = "With" /\ ~last.pre.errs.hasError /\ FirstFailure(last.updates) > 0) =>
        LET k == FirstFailure(last.updates)
            kept == ApplyAll(last.pre, last.n, SubSeq(last.updates, 1, k - 1))
        IN /\ drb.datums = kept.datums
           /\ drb.st = kept.st
           /\ drb.errs.hasError
           /\ drb.errs.errs = Append(kept.errs.errs, last.updates[k].err)

\* With(x := 5, error, x := 10) on a node without properties leaves x = 5
C9_Witness ==
    /\ last.op = "With"
    /\ ~last.pre.errs.hasError
    /\ last.updates = <<IntegerProperty("x", 5), ErrorProperty(Oops), IntegerProperty("x", 10)>>
    /\ last.pre.datums[last.n].Properties = EmptyMap
    /\ drb.datums[last.n].Properties = (0 :> IntegerValue(5))
    /\ drb.errs.errs = <<Oops>>

C11_ChildAlwaysAppendsEmptyDatum ==
    /\ last.op = "Child" =>
          LET child == Len(last.pre.datums) + 1
          IN /\ Len(drb.datums) = child
             /\ drb.datums[child] = [Properties |-> EmptyMap, Children |-> <<>>]
             /\ drb.datums[last.n].Children =
                    Append(last.pre.datums[last.n].Children, child)
             /\ drb.datums[last.n].Properties = last.pre.datums[last.n].Properties
             /\ \A m \in DOMAIN last.pre.datums \ {last.n} :
                   drb.datums[m] = last.pre.datums[m]
             /\ drb.st = last.pre.st /\ drb.errs = last.pre.errs /\ drb.d = last.pre.d
    /\ last.op = "With" =>
          /\ Len(drb.datums) = Len(last.pre.datums)
          /\ \A m \in DOMAIN last.pre.datums :
                drb.datums[m].Children = last.pre.datums[m].Children

\* a node got a child, then a With recorded an error, then the node got a second child
C11_Witness ==
    /\ last.op = "Child"
    /\ last.pre.errs.hasError
    /\ failed # {}
    /\ Len(last.pre.datums[last.n].Children) = 1
    /\ Len(drb.datums[last.n].Children) = 2
    /\ drb.datums[Len(drb.datums)] = newDatumBuilder

----------------------------------------------------------------------------
(* Spec: New on a list of dataSources, then one HandleDataRequest.  The     *)
(* dispatching goroutine groups the sub-queries, starts one goroutine per   *)
(* implicated dataSource (in any order: groupedReqs is a Go map) and waits. *)
(* A handler is any sequence of DataSeries, Child and With calls on the     *)
(* shared builder followed by a return of nil or of an error.               *)

QueryNames == {"Alpha", "Beta"}

\* the dataSources given to New: each declares some query names, in any order and
\* with repeats; one list has a dataSource that declares none
SourceLists ==
    SeqsUpTo(SeqsUpTo(QueryNames, MaxSupported) \ {<<>>}, MaxSources)
        \cup {<<<<>>, <<"Alpha">>>>}

\* the requests: any query names, the SeriesName being the sub-query's position
Requests ==
    {[i \in DOMAIN names |-> SeriesRequest(names[i], ToString(i))] :
        names \in SeqsUpTo(QueryNames, MaxSeriesReqs)}

\* the update lists a handler passes to With
HandlerUpdateLists ==
    {<<IntegerProperty("x", 5)>>, <<ErrorProperty(Oops)>>,
     <<Chain(<<ErrorProperty(Oops)>>), ErrorProperty(<<"again">>)>>}

\* the errors the handler of dataSource ds may return
HandlerErrors(ds) == {NilErr, <<"handler failed", ToString(ds)>>}

RECURSIVE SumTo(_, _)
SumTo(f, n) == IF n = 0 THEN 0 ELSE f[n] + SumTo(f, n - 1)

\* the builder calls the handlers of the request have made so far
TotalOps == SumTo(hops, Len(hops))

Init ==
    /\ drb = NewDataResponseBuilder
    /\ BuilderIdle /\ STIdle
    /\ dss = <<>>
    /\ qd = NilDispatcher
    /\ pc = "start"
    /\ req = <<>>
    /\ groupedReqs = EmptyMap
    /\ hstate = <<>>
    /\ hops = <<>>
    /\ owned = <<>>
    /\ finished = <<>>
    /\ invocations = <<>>
    /\ errg = newErrgroup

DNew(sources) ==
    /\ pc = "start"
    /\ dss' = sources
    /\ qd' = New(sources)
    /\ pc' = IF qd'.nil THEN "newfailed" ELSE "registered"
    /\ hstate' = [ds \in DOMAIN sources |-> "idle"]
    /\ hops' = [ds \in DOMAIN sources |-> 0]
    /\ owned' = [ds \in DOMAIN sources |-> {}]
    /\ invocations' = [ds \in DOMAIN sources |-> <<>>]
    /\ UNCHANGED <<drb, req, groupedReqs, finished, errg, builderVars, stVars>>

\* HandleDataRequest up to errgroup.WithContext, or to its return on an unsupported query
DHandleDataRequest(seriesRequests) ==
    /\ pc = "registered"
    /\ req' = seriesRequests
    /\ drb' = NewDataResponseBuilder
    /\ LET g == groupSeriesReqs(qd.dataSeriesQueryHandlers, seriesRequests, EmptyMap)
       IN IF g.ok
          THEN /\ groupedReqs' = g.groupedReqs
               /\ errg' = newErrgroup
               /\ pc' = "launching"
               /\ UNCHANGED result
          ELSE /\ result' = [returned |-> TRUE, data |-> NilData, err |-> g.err]
               /\ pc' = "settled"
               /\ UNCHANGED <<groupedReqs, errg>>
    /\ UNCHANGED <<dss, qd, hstate, hops, owned, finished, invocations, last, written,
                   failed, calls, stVars>>

\* errg.Go for one entry of groupedReqs
DGo(ds) ==
    /\ pc = "launching"
    /\ ds \in DOMAIN groupedReqs
    /\ invocations[ds] = <<>>
    /\ hstate' = [hstate EXCEPT ![ds] = "running"]
    /\ invocations' = [invocations EXCEPT ![ds] = Append(@, groupedReqs[ds])]
    /\ UNCHANGED <<drb, dss, qd, pc, req, groupedReqs, hops, owned, finished, errg,
                   builderVars, stVars>>

HDataSeries(ds, i) ==
    /\ hstate[ds] = "running"
    /\ TotalOps < MaxHandlerOps
    /\ drb' = DataSeries(drb, invocations[ds][1][i])
    /\ owned' = [owned EXCEPT ![ds] = @ \cup {Len(drb.datums) + 1}]
    /\ hops' = [hops EXCEPT ![ds] = @ + 1]
    /\ UNCHANGED <<dss, qd, pc, req, groupedReqs, hstate, finished, invocations, errg,
                   builderVars, stVars>>

HChild(ds, n) ==
    /\ hstate[ds] = "running"
    /\ TotalOps < MaxHandlerOps
    /\ drb' = Child(drb, n)
    /\ owned' = [owned EXCEPT ![ds] = @ \cup {Len(drb.datums) + 1}]
    /\ hops' = [hops EXCEPT ![ds] = @ + 1]
    /\ UNCHANGED <<dss, qd, pc, req, groupedReqs, hstate, finished, invocations, errg,
                   builderVars, stVars>>

HWith(ds, n, updates) ==
    /\ hstate[ds] = "running"
    /\ TotalOps < MaxHandlerOps
    /\ drb' = With(drb, n, updates)
    /\ hops' = [hops EXCEPT ![ds] = @ + 1]
    /\ UNCHANGED <<dss, qd, pc, req, groupedReqs, hstate, owned, finished, invocations,
                   errg, builderVars, stVars>>

HReturn(ds, err) ==
    /\ hstate[ds] = "running"
    /\ hstate' = [hstate EXCEPT ![ds] = "done"]
    /\ finished' = Append(finished, [ds |-> ds, err |-> err])
    /\ errg' = errgReturn(errg, err)
    /\ UNCHANGED <<drb, dss, qd, pc, req, groupedReqs, hops, owned, invocations,
                   builderVars, stVars>>

\* a Wait that also returns as soon as the group holds an error
WaitReturns_OnFirstError(grouped, states, g) ==
    \/ \A ds \in DOMAIN grouped : states[ds] = "done"
    \/ g.err # NilErr /\ \A ds \in DOMAIN grouped : states[ds] # "idle"

\* errg.Wait returns once every function passed to Go has returned
WaitReturns(grouped, states, g) == \A ds \in DOMAIN grouped : states[ds] = "done"

DWait ==
    /\ pc = "launching"
    /\ WaitReturns(groupedReqs, hstate, errg)
    /\ LET r == afterWait(errg, drb)
       IN /\ drb' = r.b
          /\ result' = [returned |-> TRUE, data |-> r.data, err |-> r.err]
    /\ errg' = [errg EXCEPT !.cancelled = TRUE]
    /\ pc' = "settled"
    /\ UNCHANGED <<dss, qd, req, groupedReqs, hstate, hops, owned, finished, invocations,
                   last, written, failed, calls, stVars>>

Running == {ds \in DOMAIN hstate : hstate[ds] = "running"}

Next ==
    \/ pc = "start" /\ \E sources \in SourceLists : DNew(sources)
    \/ pc = "registered" /\ \E seriesRequests \in Requests : DHandleDataRequest(seriesRequests)
    \/ \E ds \in DOMAIN groupedReqs : DGo(ds)
    \/ \E ds \in Running : \E i \in DOMAIN invocations[ds][1] : HDataSeries(ds, i)
    \/ \E ds \in Running : \E n \in owned[ds] : HChild(ds, n)
    \/ \E ds \in Running : \E n \in owned[ds] : \E updates \in HandlerUpdateLists :
          HWith(ds, n, updates)
    \/ \E ds \in Running : \E err \in HandlerErrors(ds) : HReturn(ds, err)
    \/ DWait

Spec == Init /\ [][Next]_vars

\* the query names dataSource ds declared
Supported(ds) == Range(dss[ds])

RegisteredNames == UNION {Supported(ds) : ds \in DOMAIN dss}

\* the sub-queries of the request whose names dataSource ds declared, in request order
Mine(ds) == LET IsMine(r) == r.QueryName \in Supported(ds) IN SelectSeq(req, IsMine)

HasUnknownQuery == \E i \in DOMAIN req : req[i].QueryName \notin RegisteredNames

NothingReturned == result.data.nil /\ result.err # NilErr

SomeHandlerFailed == \E i \in DOMAIN finished : finished[i].err # NilErr

AllHandlersReturnedNil == \A i \in DOMAIN finished : finished[i].err = NilErr

\* C1: if at least one handler returned a non-nil error, HandleDataRequest returns
\* nil Data and a non-nil error, in whatever order the handlers ran and returned.
C1_HandlerErrorFailsRequest ==
    (pc = "settled" /\ SomeHandlerFailed) => NothingReturned

\* two dataSources were implicated; the first to return had added a series and
\* returned nil, the second returned an error
C1_Witness ==
    /\ pc = "settled"
    /\ Len(finished) = 2
    /\ finished[1].err = NilErr
    /\ owned[finished[1].ds] # {}
    /\ finished[2].err # NilErr
    /\ Len(drb.d.DataSeries) > 0
    /\ NothingReturned

\* C2: if a sub-query names a query no dataSource supports, HandleDataRequest returns
\* nil Data and a non-nil error and no handler is ever started, wherever the unknown
\* name stands in the request.
C2_UnknownQueryFailsBeforeDispatch ==
    HasUnknownQuery =>
        /\ pc = "settled"
        /\ NothingReturned
        /\ \A ds \in DOMAIN dss : invocations[ds] = <<>> /\ hstate[ds] = "idle"

\* the first sub-query has a registered name, the second an unknown one
C2_Witness ==
    /\ pc = "settled"
    /\ Len(req) = 2
    /\ req[1].QueryName \in RegisteredNames
    /\ req[2].QueryName \notin RegisteredNames
    /\ NothingReturned
    /\ \A ds \in DOMAIN dss : invocations[ds] = <<>>

ConflictingSources ==
    \E i, j \in DOMAIN dss : i < j /\ Supported(i) \cap Supported(j) # {}

\* C3 as claimed: New returns an error and no dispatcher when two of the dataSources
\* declare the same query name, and a dispatcher (in which every name belongs to the
\* dataSource that declared it) and no error when their lists are pairwise disjoint.
C3_NewFailsExactlyOnConflict ==
    pc # "start" =>
        IF ConflictingSources THEN qd.nil /\ qd.err # NilErr
        ELSE /\ ~qd.nil
             /\ qd.err = NilErr
             /\ \A ds \in DOMAIN dss : \A name \in Supported(ds) :
                   qd.dataSeriesQueryHandlers[name] = ds

\* C4: when every query name of the request is registered, a handler is started at
\* most once per dataSource and only with exactly the sub-queries whose names its
\* dataSource declared, in request order; once the request is settled every
\* dataSource with such sub-queries was started, and every sub-query was handed to
\* exactly one handler.
C4_EachOwnerInvokedOnceWithItsQueries ==
    (pc \in {"launching", "settled"} /\ ~HasUnknownQuery) =>
        /\ \A ds \in DOMAIN dss :
              LET mine == Mine(ds)
              IN /\ Len(invocations[ds]) <= 1
                 /\ invocations[ds] # <<>> => (mine # <<>> /\ invocations[ds][1] = mine)
                 /\ (pc = "settled" /\ mine # <<>>) => invocations[ds] # <<>>
        /\ pc = "settled" =>
              \A i \in DOMAIN req :
                  Cardinality({ds \in DOMAIN dss :
                                  /\ invocations[ds] # <<>>
                                  /\ req[i] \in Range(invocations[ds][1])}) = 1

\* two sub-queries of one dataSource, in request order; the other dataSource, which
\* declared another name, is not started
C4_Witness ==
    /\ pc = "settled"
    /\ Len(dss) = 2
    /\ Supported(1) # {} /\ Supported(2) # {}
    /\ Len(req) = 2
    /\ \E ds \in DOMAIN dss :
          /\ invocations[ds] = <<req>>
          /\ \A other \in DOMAIN dss \ {ds} : invocations[other] = <<>>

\* the scenario of C5: two dataSources, each registered for one query, one sub-query
\* for each, and each handler made one builder call, a DataSeries, and returned nil
TwoSourcesOneSeriesEach ==
    /\ Len(dss) = 2
    /\ Len(req) = 2
    /\ Len(finished) = 2
    /\ AllHandlersReturnedNil
    /\ \A ds \in DOMAIN dss :
          /\ Len(dss[ds]) = 1
          /\ Len(invocations[ds]) = 1
          /\ Len(invocations[ds][1]) = 1
          /\ hops[ds] = 1
          /\ Cardinality(owned[ds]) = 1

\* C5: in that scenario HandleDataRequest returns, whichever handler ran first, no
\* error and a Data with exactly two DataSeries, one named after each sub-query,
\* each with its own root Datum without properties and without children.
C5_TwoSourcesTwoEmptySeries ==
    (pc = "settled" /\ TwoSourcesOneSeriesEach) =>
        /\ result.err = NilErr
        /\ ~result.data.nil
        /\ Len(result.data.DataSeries) = 2
        /\ \A i \in DOMAIN req :
              Cardinality({j \in DOMAIN result.data.DataSeries :
                  result.data.DataSeries[j].SeriesName = req[i].SeriesName}) = 1
        /\ result.data.DataSeries[1].Root # result.data.DataSeries[2].Root
        /\ \A j \in DOMAIN result.data.DataSeries :
              result.data.datums[result.data.DataSeries[j].Root] = newDatumBuilder
        /\ result.data.StringTable = <<>>

\* the handler of the second sub-query added its series first
C5_Witness ==
    /\ pc = "settled"
    /\ TwoSourcesOneSeriesEach
    /\ ~result.data.nil
    /\ result.data.DataSeries[1].SeriesName = req[2].SeriesName
    /\ result.data.DataSeries[2].SeriesName = req[1].SeriesName

\* C6: whenever the error sink holds an error, Data returns nil Data and a non-nil
\* error; and if the sink holds one when the request is settled, HandleDataRequest
\* returned nil Data and a non-nil error, whatever the handlers returned and however
\* much of the tree was built before or after the failure.
C6_SinkErrorMeansNoData ==
    /\ drb.errs.errs # <<>> => (Data(drb).data.nil /\ Data(drb).err # NilErr)
    /\ (pc = "settled" /\ drb.errs.errs # <<>>) => NothingReturned

\* every handler returned nil; a With recorded an error and a child was added after it
C6_Witness ==
    /\ pc = "settled"
    /\ finished # <<>>
    /\ AllHandlersReturnedNil
    /\ drb.errs.errs = <<Oops>>
    /\ \E n \in DOMAIN drb.datums :
          drb.datums[n].Children # <<>> /\ drb.datums[n].Properties = EmptyMap
    /\ NothingReturned

----------------------------------------------------------------------------
(* The wire form of a Value.  In this part a Go string is the sequence of  *)
(* its characters, each a one-character TLA+ string, and a JSON document   *)
(* is the tree of the text json.Marshal writes: a number is its literal,   *)
(* character by character.  TLC's integers are 32 bits wide, so int64 is   *)
(* scaled to IntBits bits.                                                 *)

IntBits == 6
MaxStrLen == 3
MaxListLen == 2

unsetValue == 0
StringValueType == 1
StringsValueType == 3
IntegersValueType == 6
DoubleValueType == 7
DurationValueType == 8
TimestampValueType == 9

ValueTypes == StringValueType..TimestampValueType

MinInt64 == -(2 ^ (IntBits - 1))
MaxInt64 == 2 ^ (IntBits - 1) - 1

\* time.Second, in nanoseconds
NanosPerSecond == 1000000000

\* the remainder of Go's % operator, which truncates towards zero
Rem(a, b) == IF a >= 0 THEN a % b ELSE -((-a) % b)

\* the quotient of Go's / operator on integers, which truncates towards zero
Quo(a, b) == IF a >= 0 THEN a \div b ELSE -((-a) \div b)

\* a float64 is finite (here a multiple of 1/2, held as twice its value), +Inf or NaN
Float(class, twice) == [class |-> class, twice |-> twice]

\* a time.Time: the zero Time, or sec seconds and nsec nanoseconds from the Unix epoch
Time(sec, nsec) == [zero |-> FALSE, sec |-> sec, nsec |-> nsec]

ZeroTime == [zero |-> TRUE, sec |-> 0, nsec |-> 0]

\* time.Unix(sec, nsec): nsec outside [0, 1e9) is carried into sec
TimeUnix(sec, nsec) ==
    IF nsec < 0 \/ nsec >= NanosPerSecond
    THEN LET n == Quo(nsec, NanosPerSecond)
             s1 == sec + n
             ns1 == nsec - n * NanosPerSecond
         IN IF ns1 < 0 THEN Time(s1 - 1, ns1 + NanosPerSecond) ELSE Time(s1, ns1)
    ELSE Time(sec, nsec)

StringValue(str) == [T |-> StringValueType, R |-> "string", V |-> str]

StringsValue(strs) == [T |-> StringsValueType, R |-> "[]string", V |-> strs]

IntegersValue(ints) == [T |-> IntegersValueType, R |-> "[]int64", V |-> ints]

DoubleValue(f) == [T |-> DoubleValueType, R |-> "float64", V |-> <<f>>]

DurationValue(dur) == [T |-> DurationValueType, R |-> "Duration", V |-> <<dur>>]

\* t.Unix() is t.sec, t.UnixNano() is t.sec * 1e9 + t.nsec
TimestampValue(t) ==
    [T |-> TimestampValueType, R |-> "timestamp",
     V |-> <<t.sec, Rem(t.sec * NanosPerSecond + t.nsec, NanosPerSecond)>>]

\* the Value a list constructor returns when it is called without arguments: Go
\* passes a nil slice for the variadic parameter
NoArguments(v) == [v EXCEPT !.R = "nil " \o v.R]

IsNilSlice(v) == v.R \in {"nil []string", "nil []int64"}

(* JSON documents *)

JNull == [j |-> "null"]

JNumber(lit) == [j |-> "number", lit |-> lit]

JString(str) == [j |-> "string", s |-> str]

JArray(elems) == [j |-> "array", a |-> elems]

Digits == <<"0", "1", "2", "3", "4", "5", "6", "7", "8", "9">>

\* the decimal literal of a natural number
RECURSIVE FormatNat(_)
FormatNat(n) ==
    IF n < 10 THEN <<Digits[n + 1]>> ELSE Append(FormatNat(n \div 10), Digits[(n % 10) + 1])

\* how json.Marshal writes an integer
FormatInt(n) == IF n < 0 THEN <<"-">> \o FormatNat(-n) ELSE FormatNat(n)

\* how json.Marshal writes a finite float64: the shortest literal that reads back
FormatFloat(f) ==
    LET m == IF f.twice < 0 THEN -f.twice ELSE f.twice
        sign == IF f.twice < 0 THEN <<"-">> ELSE <<>>
    IN sign \o FormatNat(m \div 2) \o (IF m % 2 = 1 THEN <<".", "5">> ELSE <<>>)

IsDigit(c) == c \in Range(Digits)

DigitValue(c) == CHOOSE d \in 0..9 : Digits[d + 1] = c

RECURSIVE ParseNat(_)
ParseNat(cs) ==
    IF Len(cs) = 1 THEN DigitValue(cs[1])
    ELSE ParseNat(SubSeq(cs, 1, Len(cs) - 1)) * 10 + DigitValue(cs[Len(cs)])

AllDigits(cs) == cs # <<>> /\ \A i \in DOMAIN cs : IsDigit(cs[i])

\* json.Number.Int64: strconv.ParseInt of the literal, base 10.  (Its range check
\* cannot fail on a literal written from an int64 and is left out.)
Int64Of(lit) ==
    LET neg == lit # <<>> /\ lit[1] = "-"
        body == IF neg THEN Tail(lit) ELSE lit
    IN IF ~AllDigits(body) THEN [n |-> 0, err |-> <<"strconv.ParseInt: invalid syntax">>]
       ELSE [n |-> IF neg THEN -ParseNat(body) ELSE ParseNat(body), err |-> NilErr]

\* json.Number.Float64: strconv.ParseFloat of the literal
Float64Of(lit) ==
    LET neg == lit # <<>> /\ lit[1] = "-"
        body == IF neg THEN Tail(lit) ELSE lit
        half == Len(body) > 2 /\ SubSeq(body, Len(body) - 1, Len(body)) = <<".", "5">>
        whole == IF half THEN SubSeq(body, 1, Len(body) - 2) ELSE body
    IN IF ~AllDigits(whole)
       THEN [f |-> Float("finite", 0), err |-> <<"strconv.ParseFloat: invalid syntax">>]
       ELSE LET m == 2 * ParseNat(whole) + (IF half THEN 1 ELSE 0)
            IN [f |-> Float("finite", IF neg THEN -m ELSE m), err |-> NilErr]

HexDigits ==
    {"0", "1", "2", "3", "4", "5", "6", "7", "8", "9",
     "a", "b", "c", "d", "e", "f", "A", "B", "C", "D", "E", "F"}

\* the byte the escape %xy stands for: D for %44, any other byte is named by its escape
HexByte(x, y) == IF <<x, y>> = <<"4", "4">> THEN "D" ELSE "%" \o x \o y

\* url.QueryUnescape: + becomes a space, %xy the byte it stands for; a % that is not
\* followed by two hex digits is an error
RECURSIVE QueryUnescape(_)
QueryUnescape(str) ==
    IF str = <<>> THEN [s |-> <<>>, err |-> NilErr]
    ELSE IF str[1] = "%"
    THEN IF Len(str) < 3 \/ str[2] \notin HexDigits \/ str[3] \notin HexDigits
         THEN [s |-> <<>>, err |-> <<"invalid URL escape">>]
         ELSE LET rest == QueryUnescape(SubSeq(str, 4, Len(str)))
              IN IF rest.err # NilErr THEN rest
                 ELSE [s |-> <<HexByte(str[2], str[3])>> \o rest.s, err |-> NilErr]
    ELSE LET rest == QueryUnescape(Tail(str))
             c == IF str[1] = "+" THEN " " ELSE str[1]
         IN IF rest.err # NilErr THEN rest ELSE [s |-> <<c>> \o rest.s, err |-> NilErr]

(* V.MarshalJSON, V.fromAny and V.UnmarshalJSON *)

\* how json.Marshal writes the payload of v, by the Go type the payload has; a nil
\* slice is written as null, and a float64 that is not finite is an error
MarshalPayload(v) ==
    CASE v.R = "string" -> [ok |-> TRUE, json |-> JString(v.V)]
      [] v.R \in {"int64", "Duration"} -> [ok |-> TRUE, json |-> JNumber(FormatInt(v.V[1]))]
      [] v.R = "[]string" ->
            [ok |-> TRUE, json |-> JArray([i \in DOMAIN v.V |-> JString(v.V[i])])]
      [] v.R = "[]int64" ->
            [ok |-> TRUE, json |-> JArray([i \in DOMAIN v.V |-> JNumber(FormatInt(v.V[i]))])]
      [] IsNilSlice(v) -> [ok |-> TRUE, json |-> JNull]
      [] v.R = "float64" ->
            IF v.V[1].class = "finite"
            THEN [ok |-> TRUE, json |-> JNumber(FormatFloat(v.V[1]))]
            ELSE [ok |-> FALSE, json |-> JNull]
      [] v.R = "timestamp" ->
            [ok |-> TRUE,
             json |-> JArray(<<JNumber(FormatInt(v.V[1])), JNumber(FormatInt(v.V[2]))>>)]

\* json.Marshal([2]any{v.T, v.V})
MarshalJSON(v) ==
    LET p == MarshalPayload(v)
    IN IF p.ok THEN [ok |-> TRUE, json |-> JArray(<<JNumber(FormatInt(v.T)), p.json>>)]
       ELSE [ok |-> FALSE, json |-> <<>>]

Panicked == [panic |-> TRUE, v |-> NoValue, err |-> NilErr]

Failed(err) == [panic |-> FALSE, v |-> NoValue, err |-> err]

Decoded(t, r, payload) == [panic |-> FALSE, v |-> [T |-> t, R |-> r, V |-> payload], err |-> NilErr]

\* the loop of fromAny over a list of JSON strings, unescaping each
RECURSIVE unescapeAll(_)
unescapeAll(strIfs) ==
    IF strIfs = <<>> THEN [panic |-> FALSE, strs |-> <<>>, err |-> NilErr]
    ELSE IF Head(strIfs).j # "string" THEN [panic |-> TRUE, strs |-> <<>>, err |-> NilErr]
    ELSE LET u == QueryUnescape(Head(strIfs).s)
         IN IF u.err # NilErr THEN [panic |-> FALSE, strs |-> <<>>, err |-> u.err]
            ELSE LET rest == unescapeAll(Tail(strIfs))
                 IN [rest EXCEPT !.strs = <<u.s>> \o @]

\* the loop of fromAny over a list of JSON numbers
RECURSIVE int64All(_)
int64All(nums) ==
    IF nums = <<>> THEN [panic |-> FALSE, ints |-> <<>>, err |-> NilErr]
    ELSE IF Head(nums).j # "number" THEN [panic |-> TRUE, ints |-> <<>>, err |-> NilErr]
    ELSE LET n == Int64Of(Head(nums).lit)
         IN IF n.err # NilErr THEN [panic |-> FALSE, ints |-> <<>>, err |-> n.err]
            ELSE LET rest == int64All(Tail(nums))
                 IN [rest EXCEPT !.ints = <<n.n>> \o @]

\* the payload fromAny stores for tag t from the JSON value tv; a type assertion on
\* a JSON value of another kind (null included) panics
fromAnyPayload(t, tv) ==
    CASE t \in {StringIndexValueType, IntegerValueType} ->
            IF tv.j # "number" THEN Panicked
            ELSE LET n == Int64Of(tv.lit)
                 IN IF n.err # NilErr THEN Failed(n.err) ELSE Decoded(t, "int64", <<n.n>>)
      [] t = StringsValueType ->
            IF tv.j # "array" THEN Panicked
            ELSE LET u == unescapeAll(tv.a)
                 IN IF u.panic THEN Panicked
                    ELSE IF u.err # NilErr THEN Failed(u.err)
                    ELSE Decoded(t, "[]string", u.strs)
      [] t = DoubleValueType ->
            IF tv.j # "number" THEN Panicked
            ELSE LET f == Float64Of(tv.lit)
                 IN IF f.err # NilErr THEN Failed(f.err) ELSE Decoded(t, "float64", <<f.f>>)
      [] t \in {StringIndicesValueType, IntegersValueType} ->
            IF tv.j # "array" THEN Panicked
            ELSE LET n == int64All(tv.a)
                 IN IF n.panic THEN Panicked
                    ELSE IF n.err # NilErr THEN Failed(n.err)
                    ELSE Decoded(t, "[]int64", n.ints)
      [] t = DurationValueType ->
            IF tv.j # "number" THEN Panicked
            ELSE LET n == Int64Of(tv.lit)
                 IN IF n.err # NilErr THEN Failed(n.err) ELSE Decoded(t, "Duration", <<n.n>>)
      [] t = TimestampValueType ->
            IF tv.j # "array" THEN Panicked
            ELSE IF Len(tv.a) # 2 THEN Failed(<<"timestamp Value is improperly formed">>)
            ELSE LET n == int64All(tv.a)
                 IN IF n.panic THEN Panicked
                    ELSE IF n.err # NilErr THEN Failed(n.err)
                    ELSE Decoded(t, "timestamp", n.ints)
      [] OTHER ->
            IF tv.j = "string" THEN Decoded(t, "string", tv.s)
            ELSE Decoded(t, "any", <<tv>>)

fromAny(elems) ==
    IF Len(elems) < 2 \/ elems[1].j # "number" THEN Panicked
    ELSE LET t == Int64Of(elems[1].lit)
         IN IF t.err # NilErr THEN Failed(t.err) ELSE fromAnyPayload(t.n, elems[2])

\* decoding the document into a []any fails unless it is an array or null; null
\* leaves the slice nil
UnmarshalJSON(data) ==
    IF data.j = "null" THEN fromAny(<<>>)
    ELSE IF data.j # "array"
    THEN Failed(<<"json: cannot unmarshal into Go value of type []interface {}">>)
    ELSE fromAny(data.a)

(* The Expect...Value accessors: the payload returned (in the form of a    *)
(* Value's V) and the error.                                               *)

ExpectStringValue(v) ==
    IF v.T # StringValueType THEN [v |-> <<>>, err |-> <<"expected value type 'str'">>]
    ELSE LET u == QueryUnescape(v.V)
         IN IF u.err # NilErr THEN [v |-> <<>>, err |-> u.err] ELSE [v |-> u.s, err |-> NilErr]

expectStringIndexValue(v) ==
    IF v.T # StringIndexValueType THEN [v |-> <<0>>, err |-> <<"expect value type 'str_idx'">>]
    ELSE [v |-> v.V, err |-> NilErr]

ExpectStringsValue(v) ==
    IF v.T # StringsValueType THEN [v |-> <<>>, err |-> <<"expected value type 'strs'">>]
    ELSE [v |-> v.V, err |-> NilErr]

ExpectIntegerValue(v) ==
    IF v.T # IntegerValueType THEN [v |-> <<0>>, err |-> <<"expected value type 'int'">>]
    ELSE [v |-> v.V, err |-> NilErr]

ExpectIntegersValue(v) ==
    IF v.T # IntegersValueType THEN [v |-> <<>>, err |-> <<"expected value type 'str_idxs'">>]
    ELSE [v |-> v.V, err |-> NilErr]

\* an ExpectDoubleValue that reads an integer as the double of the same value
ExpectDoubleValue_CoercesInteger(v) ==
    IF v.T = IntegerValueType THEN [v |-> <<Float("finite", 2 * v.V[1])>>, err |-> NilErr]
    ELSE IF v.T # DoubleValueType
    THEN [v |-> <<Float("finite", 0)>>, err |-> <<"expected value type 'dbl'">>]
    ELSE [v |-> v.V, err |-> NilErr]

ExpectDoubleValue(v) ==
    IF v.T # DoubleValueType
    THEN [v |-> <<Float("finite", 0)>>, err |-> <<"expected value type 'dbl'">>]
    ELSE [v |-> v.V, err |-> NilErr]

ExpectDurationValue(v) ==
    IF v.T # DurationValueType THEN [v |-> <<0>>, err |-> <<"expected value type 'duration'">>]
    ELSE [v |-> v.V, err |-> NilErr]

ExpectTimestampValue(v) ==
    IF v.T # TimestampValueType
    THEN [v |-> <<ZeroTime>>, err |-> <<"expected value type 'duration'">>]
    ELSE [v |-> <<TimeUnix(v.V[1], v.V[2])>>, err |-> NilErr]

\* the accessor for tag t applied to v
Expect(t, v) ==
    CASE t = StringValueType -> ExpectStringValue(v)
      [] t = StringIndexValueType -> expectStringIndexValue(v)
      [] t = StringsValueType -> ExpectStringsValue(v)
      [] t = StringIndicesValueType -> expectStringIndicesValue(v)
      [] t = IntegerValueType -> ExpectIntegerValue(v)
      [] t = IntegersValueType -> ExpectIntegersValue(v)
      [] t = DoubleValueType -> ExpectDoubleValue(v)
      [] t = DurationValueType -> ExpectDurationValue(v)
      [] t = TimestampValueType -> ExpectTimestampValue(v)

\* the zero value of the payload type of the accessor for tag t
ZeroPayload(t) ==
    CASE t \in {StringValueType, StringsValueType, StringIndicesValueType, IntegersValueType} -> <<>>
      [] t \in {StringIndexValueType, IntegerValueType, DurationValueType} -> <<0>>
      [] t = DoubleValueType -> <<Float("finite", 0)>>
      [] t = TimestampValueType -> <<ZeroTime>>

----------------------------------------------------------------------------
(* SpecCodec: a Value built by one of the constructors is written with     *)
(* MarshalJSON and read back with UnmarshalJSON, as in                     *)
(* TestValueEncodingAndDecoding, and read by one of the accessors.         *)

Chars == {"z", "+", "%", "4"}

CodecStrings == SeqsUpTo(Chars, MaxStrLen)

\* the elements of the string lists
ListStrings == {<<"z">>, <<"+">>, <<"%", "4", "4">>, <<"%">>}

Int64s == MinInt64..MaxInt64

\* the elements of the integer lists
ListInts == {MinInt64, -1, 0, MaxInt64}

Floats ==
    {Float("finite", n) : n \in -3..3} \cup {Float("+Inf", 0), Float("NaN", 0)}

Times == {Time(sec, nsec) : sec \in {-1, 0, 1}, nsec \in {0, 500000000}}

\* a list constructor called with the elements of list as its arguments
Variadic(v) == IF v.V = <<>> THEN NoArguments(v) ELSE v

CodecValues ==
    {StringValue(str) : str \in CodecStrings}
    \cup {StringIndexValue(i) : i \in 0..MaxInt64}
    \cup {IntegerValue(i) : i \in Int64s}
    \cup {DurationValue(i) : i \in Int64s}
    \cup {Variadic(StringsValue(strs)) : strs \in SeqsUpTo(ListStrings, MaxListLen)}
    \cup {Variadic(StringIndicesValue(idxs)) : idxs \in SeqsUpTo({0, 1, MaxInt64}, MaxListLen)}
    \cup {Variadic(IntegersValue(ints)) : ints \in SeqsUpTo(ListInts, MaxListLen)}
    \cup {DoubleValue(f) : f \in Floats}
    \cup {TimestampValue(t) : t \in Times}

InitCodec ==
    /\ subject \in CodecValues
    /\ wire = NoWire /\ decoded = NoDecoded /\ got = NoGot
    /\ drb = NewDataResponseBuilder
    /\ additions = <<>> /\ returned = <<>> /\ ProcIdle /\ made = <<>>
    /\ BuilderIdle /\ DispatcherIdle

CMarshal ==
    /\ ~wire.done
    /\ LET m == MarshalJSON(subject)
       IN wire' = [done |-> TRUE, ok |-> m.ok, json |-> m.json]
    /\ UNCHANGED <<drb, subject, decoded, got, additions, returned, procVars, made,
                   builderVars, dispatcherVars>>

CUnmarshal ==
    /\ wire.done /\ wire.ok
    /\ ~decoded.done
    /\ LET u == UnmarshalJSON(wire.json)
       IN decoded' = [done |-> TRUE, panic |-> u.panic, v |-> u.v, err |-> u.err]
    /\ UNCHANGED <<drb, subject, wire, got, additions, returned, procVars, made,
                   builderVars, dispatcherVars>>

CExpect(t) ==
    /\ got = NoGot
    /\ LET e == Expect(t, subject)
       IN got' = [T |-> t, V |-> e.v, err |-> e.err]
    /\ UNCHANGED <<drb, subject, wire, decoded, additions, returned, procVars, made,
                   builderVars, dispatcherVars>>

NextCodec ==
    \/ CMarshal
    \/ CUnmarshal
    \/ got = NoGot /\ \E t \in ValueTypes : CExpect(t)

SpecCodec == InitCodec /\ [][NextCodec]_vars

ValueEqual(a, b) == a.T = b.T /\ a.R = b.R /\ a.V = b.V

\* C13 as claimed: for every Value built by one of the nine constructors MarshalJSON
\* succeeds, and UnmarshalJSON of what it wrote succeeds and yields a Value equal to
\* the original in tag and payload.
C13_RoundTripIsExact ==
    /\ wire.done => wire.ok
    /\ decoded.done =>
          /\ ~decoded.panic
          /\ decoded.err = NilErr
          /\ ValueEqual(decoded.v, subject)

\* C15: an accessor applied to a Value of another tag returns a non-nil error and the
\* zero value of its payload type, whatever the Value holds.
C15_WrongTagIsAnErrorNeverACoercion ==
    (got.T # 0 /\ got.T # subject.T) => (got.err # NilErr /\ got.V = ZeroPayload(got.T))

\* ExpectDoubleValue applied to the integer 7
C15_Witness ==
    /\ got.T = DoubleValueType
    /\ subject.T = IntegerValueType
    /\ subject.V = <<7>>
    /\ got.err # NilErr
    /\ got.V = <<Float("finite", 0)>>

----------------------------------------------------------------------------
(* Datum.MarshalJSON: the properties as [key, Value] pairs in increasing   *)
(* key order, then the children in the order of d.Children.                *)

RECURSIVE SortedKeys(_)
SortedKeys(keys) ==
    IF keys = {} THEN <<>>
    ELSE LET k == CHOOSE x \in keys : \A y \in keys : x <= y
         IN <<k>> \o SortedKeys(keys \ {k})

RECURSIVE DatumMarshalJSON(_, _)
DatumMarshalJSON(datums, n) ==
    LET d == datums[n]
        keys == SortedKeys(DOMAIN d.Properties)
        props == [i \in DOMAIN keys |->
                     JArray(<<JNumber(FormatInt(keys[i])),
                              MarshalJSON(d.Properties[keys[i]]).json>>)]
        children == [i \in DOMAIN d.Children |-> DatumMarshalJSON(datums, d.Children[i])]
    IN JArray(<<JArray(props), JArray(children)>>)

----------------------------------------------------------------------------
(* SpecOrder: the single owner of one series adds children and sets and    *)
(* extends a list property on its nodes, as in TestDataResponseBuilding,   *)
(* then calls Data.                                                        *)

OrderLists == {<<"a">>, <<"b", "a">>, <<"c", "b">>}

InitOrder ==
    /\ drb = DataSeries(NewDataResponseBuilder, SeriesRequest("series", "1"))
    /\ BuilderIdle /\ STIdle /\ DispatcherIdle

OChild(n) ==
    /\ ~result.returned
    /\ Len(drb.datums) < MaxNodes
    /\ drb' = Child(drb, n)
    /\ made' = Append(made, [parent |-> n, child |-> Len(drb.datums) + 1])
    /\ UNCHANGED <<builderVars, additions, returned, codecVars, procVars, dispatcherVars>>

OStrings(n, values) ==
    /\ ~result.returned
    /\ calls < MaxSets
    /\ drb' = With(drb, n, <<StringsProperty("choices", values)>>)
    /\ written' = MapSet(written, n, values)
    /\ calls' = calls + 1
    /\ UNCHANGED <<result, last, failed, stVars, dispatcherVars>>

OExtend(n, values) ==
    /\ ~result.returned
    /\ calls < MaxSets
    /\ drb' = With(drb, n, <<StringsPropertyExtended("choices", values)>>)
    /\ written' = MapSet(written, n, (IF n \in DOMAIN written THEN written[n] ELSE <<>>)
                                         \o values)
    /\ calls' = calls + 1
    /\ UNCHANGED <<result, last, failed, stVars, dispatcherVars>>

OData ==
    /\ ~result.returned
    /\ LET r == Data(drb)
       IN /\ drb' = r.b
          /\ result' = [returned |-> TRUE, data |-> r.data, err |-> r.err]
    /\ UNCHANGED <<last, written, failed, calls, stVars, dispatcherVars>>

NextOrder ==
    \/ ~result.returned /\ \E n \in DOMAIN drb.datums : OChild(n)
    \/ ~result.returned /\ calls < MaxSets
          /\ \E n \in DOMAIN drb.datums, values \in OrderLists : OStrings(n, values)
    \/ ~result.returned /\ calls < MaxSets
          /\ \E n \in DOMAIN drb.datums, values \in OrderLists : OExtend(n, values)
    \/ OData

SpecOrder == InitOrder /\ [][NextOrder]_vars

\* the children the Child calls on node n returned, in call order
ChildrenMade(n) ==
    LET OfN(c) == c.parent = n
        cs == SelectSeq(made, OfN)
    IN [i \in DOMAIN cs |-> cs[i].child]

\* the strings a written list of string indices stands for
ListRead(data, jsonList) ==
    [i \in DOMAIN jsonList.a |-> data.StringTable[Int64Of(jsonList.a[i].lit).n + 1]]

\* C12: in the Data a single owner finishes, and in its JSON form, every node lists
\* its children in the order of the Child calls made on it, and a node's list
\* property holds the strings of the last StringsProperty in the order supplied,
\* followed by those of each later StringsPropertyExtended in the order supplied.
C12_InsertionOrderKept ==
    (result.returned /\ ~result.data.nil) =>
        \A n \in DOMAIN result.data.datums :
            LET json == DatumMarshalJSON(result.data.datums, n)
                props == json.a[1].a
                children == json.a[2].a
            IN /\ result.data.datums[n].Children = ChildrenMade(n)
               /\ children = [i \in DOMAIN ChildrenMade(n) |->
                                 DatumMarshalJSON(result.data.datums, ChildrenMade(n)[i])]
               /\ IF n \in DOMAIN written
                  THEN /\ Len(props) = 1
                       /\ ListRead(result.data, JArray(<<props[1].a[1]>>)) = <<"choices">>
                       /\ props[1].a[2].a[1] = JNumber(FormatInt(StringIndicesValueType))
                       /\ ListRead(result.data, props[1].a[2].a[2]) = written[n]
                  ELSE props = <<>>

\* the root got two children; the second was given the list b, a and then had c, b
\* appended, the first was given the list a
C12_Witness ==
    /\ result.returned /\ ~result.data.nil
    /\ result.data.datums[1].Children = <<2, 3>>
    /\ written = (2 :> <<"a">>) @@ (3 :> <<"b", "a", "c", "b">>)
    /\ result.data.StringTable = <<"b", "a", "choices", "c">>
    /\ result.data.datums[3].Properties = (2 :> StringIndicesValue(<<0, 1, 3, 0>>))

----------------------------------------------------------------------------
(* Properties of Spec about the errors of a request and about its          *)
(* goroutines.  A handler's failure is the event HReturn: its function     *)
(* returns the error to the errgroup.                                      *)

\* the error of the handler that failed first
FirstHandlerError ==
    LET fails == {i \in DOMAIN finished : finished[i].err # NilErr}
    IN finished[CHOOSE i \in fails : \A j \in fails : i <= j].err

HandlerFailures == {i \in DOMAIN finished : finished[i].err # NilErr}

\* C14: when several handlers return an error during one request, HandleDataRequest
\* returns the error of the handler that failed first, not that of a later one.
C14_FirstHandlerErrorIsReturned ==
    (pc = "settled" /\ SomeHandlerFailed) => result.err = FirstHandlerError

\* two handlers failed, each with its own error; the first one's is returned
C14_Witness ==
    /\ pc = "settled"
    /\ Len(finished) = 2
    /\ finished[1].err # NilErr /\ finished[2].err # NilErr
    /\ finished[1].err # finished[2].err
    /\ result.err = finished[1].err

\* C18: while HandleDataRequest is dispatching, the context handed to the handlers is
\* cancelled if and only if a handler has returned an error: not before the first
\* failure, and from the first failure on, while other handlers may still run.
C18_ContextCancelledByFirstFailure ==
    pc = "launching" => (errg.cancelled <=> SomeHandlerFailed)

\* one handler has failed and another is still running with the context cancelled
C18_Witness ==
    /\ pc = "launching"
    /\ Len(finished) = 1
    /\ finished[1].err # NilErr
    /\ errg.cancelled
    /\ Running # {}

\* C19: HandleDataRequest has not returned while a handler it started is running,
\* also when another handler has already failed; when it has returned every handler
\* it started has returned, and Data is called only then.
C19_ReturnsOnlyAfterAllHandlers ==
    /\ Running # {} => (~result.returned /\ pc = "launching")
    /\ result.returned =>
          \A ds \in DOMAIN groupedReqs :
              hstate[ds] = "done" /\ \E i \in DOMAIN finished : finished[i].ds = ds

\* a handler failed at once; the other, which made calls on the builder, returned
\* after it, and only then the request was settled
C19_Witness ==
    /\ pc = "settled"
    /\ Len(finished) = 2
    /\ finished[1].err # NilErr
    /\ hops[finished[1].ds] = 0
    /\ hops[finished[2].ds] > 0
    /\ result.returned

\* part is a run of consecutive message parts of err
Contains(err, part) ==
    \E i \in 1..(Len(err) - Len(part) + 1) : SubSeq(err, i, i + Len(part) - 1) = part

\* C20 as claimed: every failure of a request, a handler's returned error or an error
\* recorded by a builder, is recorded in the error sink and is contained in the
\* error HandleDataRequest reports.
C20_EveryFailureIsReported ==
    (pc = "settled" /\ finished # <<>>) =>
        /\ \A i \in HandlerFailures :
              /\ finished[i].err \in Range(drb.errs.errs)
              /\ Contains(result.err, finished[i].err)
        /\ \A k \in DOMAIN drb.errs.errs : Contains(result.err, drb.errs.errs[k])

\* C20: a handler's error is never recorded in the sink.  If a handler failed,
\* HandleDataRequest reports the first handler error alone, with nothing of the sink
\* and nothing of later handler errors; otherwise it reports what Data reports, the
\* errors of the sink joined in the order they were recorded.
C20_HandlerErrorElseJoinedSink ==
    /\ \A i \in HandlerFailures : finished[i].err \notin Range(drb.errs.errs)
    /\ (pc = "settled" /\ finished # <<>>) =>
          IF SomeHandlerFailed THEN result.err = FirstHandlerError
          ELSE result.err = Error(drb.errs.errs)
    /\ Data(drb).err = Error(drb.errs.errs)

\* the sink holds two errors of the builders and a handler returned an error: only
\* the handler's error is reported
C20_Witness ==
    /\ pc = "settled"
    /\ drb.errs.errs = <<Oops, <<"again">>>>
    /\ SomeHandlerFailed
    /\ result.err = FirstHandlerError
    /\ ~Contains(result.err, Oops)

----------------------------------------------------------------------------
(* SpecLock: goroutines calling stringIndex on one stringTable.  Each step *)
(* of a goroutine is one acquisition of st.mu or one access to the table   *)
(* made while holding it; a deferred unlock is part of the step that       *)
(* returns.                                                                *)

MaxProcs == 2
MaxCalls == 2

LockStrings == {"ant", "bee"}

Procs == 1..MaxProcs

\* the read of the map made under the write lock
lockedLookup_AlwaysMiss(st, str) == [idx |-> 0, ok |-> FALSE]

lockedLookup(st, str) ==
    IF str \in DOMAIN st.stringsToIndices
    THEN [idx |-> st.stringsToIndices[str], ok |-> TRUE]
    ELSE [idx |-> 0, ok |-> FALSE]

InitLock ==
    /\ drb = NewDataResponseBuilder
    /\ procs = [g \in Procs |->
                   [pc |-> "idle", str |-> "", idx |-> 0, missed |-> FALSE, calls |-> 0]]
    /\ mu = newMutex
    /\ additions = <<>> /\ returned = <<>> /\ CodecIdle /\ made = <<>>
    /\ BuilderIdle /\ DispatcherIdle

lockUnchanged == <<builderVars, dispatcherVars, codecVars, made>>

\* stringIndex(str) is called
LCall(g, str) ==
    /\ procs[g].pc = "idle"
    /\ procs[g].calls < MaxCalls
    /\ procs' = [procs EXCEPT ![g].pc = "lookup", ![g].str = str, ![g].missed = FALSE]
    /\ UNCHANGED <<drb, mu, additions, returned, lockUnchanged>>

\* st.mu.RLock()
LRLock(g) ==
    /\ procs[g].pc = "lookup"
    /\ mu.writer = 0
    /\ mu' = [mu EXCEPT !.readers = @ \cup {g}]
    /\ procs' = [procs EXCEPT ![g].pc = "rlocked"]
    /\ UNCHANGED <<drb, additions, returned, lockUnchanged>>

\* the call of goroutine g returns idx
Return(g, idx) ==
    /\ additions' = Append(additions, procs[g].str)
    /\ returned' = Append(returned, idx)

\* idx, ok := st.stringsToIndices[str], with the deferred RUnlock
LLookup(g) ==
    /\ procs[g].pc = "rlocked"
    /\ mu' = [mu EXCEPT !.readers = @ \ {g}]
    /\ LET r == lookupStringIndex(drb.st, procs[g].str)
       IN IF r.ok
          THEN /\ procs' = [procs EXCEPT ![g].pc = "idle", ![g].calls = @ + 1]
               /\ Return(g, r.idx)
          ELSE /\ procs' = [procs EXCEPT ![g].pc = "miss", ![g].missed = TRUE]
               /\ UNCHANGED <<additions, returned>>
    /\ UNCHANGED <<drb, lockUnchanged>>

\* st.mu.Lock()
LLock(g) ==
    /\ procs[g].pc = "miss"
    /\ mu.writer = 0 /\ mu.readers = {}
    /\ mu' = [mu EXCEPT !.writer = g]
    /\ procs' = [procs EXCEPT ![g].pc = "locked"]
    /\ UNCHANGED <<drb, additions, returned, lockUnchanged>>

\* the second look at the map, with the deferred Unlock if the string is there
LRecheck(g) ==
    /\ procs[g].pc = "locked"
    /\ LET r == lockedLookup(drb.st, procs[g].str)
       IN IF r.ok
          THEN /\ procs' = [procs EXCEPT ![g].pc = "idle", ![g].calls = @ + 1]
               /\ mu' = [mu EXCEPT !.writer = 0]
               /\ Return(g, r.idx)
          ELSE /\ procs' = [procs EXCEPT ![g].pc = "append"]
               /\ UNCHANGED <<mu, additions, returned>>
    /\ UNCHANGED <<drb, lockUnchanged>>

\* idx = int64(len(st.stringsByIndex)); st.stringsByIndex = append(st.stringsByIndex, str)
LAppend(g) ==
    /\ procs[g].pc = "append"
    /\ procs' = [procs EXCEPT ![g].pc = "store", ![g].idx = Len(drb.st.stringsByIndex)]
    /\ drb' = [drb EXCEPT !.st.stringsByIndex = Append(@, procs[g].str)]
    /\ UNCHANGED <<mu, additions, returned, lockUnchanged>>

\* st.stringsToIndices[str] = idx; return idx, with the deferred Unlock
LStore(g) ==
    /\ procs[g].pc = "store"
    /\ drb' = [drb EXCEPT !.st.stringsToIndices = MapSet(@, procs[g].str, procs[g].idx)]
    /\ procs' = [procs EXCEPT ![g].pc = "idle", ![g].calls = @ + 1]
    /\ mu' = [mu EXCEPT !.writer = 0]
    /\ Return(g, procs[g].idx)
    /\ UNCHANGED lockUnchanged

NextLock ==
    \/ \E g \in Procs, str \in LockStrings : LCall(g, str)
    \/ \E g \in Procs : LRLock(g)
    \/ \E g \in Procs : LLookup(g)
    \/ \E g \in Procs : LLock(g)
    \/ \E g \in Procs : LRecheck(g)
    \/ \E g \in Procs : LAppend(g)
    \/ \E g \in Procs : LStore(g)

SpecLock == InitLock /\ [][NextLock]_vars

\* C16: under every interleaving of stringIndex calls the table never holds a string
\* twice; whenever the write lock is free the map and the list are exact inverses
\* over the indices 0..n-1; and every call that returned, returned the index its
\* string has in the table now, so that all calls for one string got the same index
\* and no index handed out has changed or disappeared.
C16_ConcurrentInterningIsConsistent ==
    LET st == drb.st
        n == Len(st.stringsByIndex)
    IN /\ \A i, j \in 1..n : st.stringsByIndex[i] = st.stringsByIndex[j] => i = j
       /\ mu.writer = 0 =>
             /\ DOMAIN st.stringsToIndices = Range(st.stringsByIndex)
             /\ \A i \in 1..n : st.stringsToIndices[st.stringsByIndex[i]] = i - 1
       /\ \A i \in DOMAIN additions :
             /\ additions[i] \in DOMAIN st.stringsToIndices
             /\ st.stringsToIndices[additions[i]] = returned[i]
             /\ st.stringsByIndex[returned[i] + 1] = additions[i]

\* both goroutines missed the same string in the read-locked lookup and both
\* returned index 0 for it
C16_Witness ==
    /\ \A g \in 1..2 : procs[g].pc = "idle" /\ procs[g].missed /\ procs[g].str = "ant"
                          /\ procs[g].calls = 1
    /\ additions = <<"ant", "ant">>
    /\ returned = <<0, 0>>
    /\ drb.st.stringsByIndex = <<"ant">>

----------------------------------------------------------------------------
(* SpecSeries: workers calling DataSeries on one DataResponseBuilder, each *)
(* then updating the builder it was returned.  The append made under       *)
(* drb.mu is a read of drb.d.DataSeries followed by a write.  A worker     *)
(* sets a property of its root any number of times and adds one child.     *)

MaxWorkers == 2

Workers == 1..MaxWorkers

SeriesNames == {"s1", "s2"}

WorkerKeys == <<"x", "y", "x">>

WorkerValues == {1, 2}

\* a mutex that never makes its caller wait
lockFree_Always(m) == TRUE

\* sync.Mutex.Lock returns once nobody holds the mutex
lockFree(m) == m.writer = 0 /\ m.readers = {}

InitSeries ==
    /\ drb = NewDataResponseBuilder
    /\ procs \in [Workers ->
                     [pc : {"new"}, SeriesName : SeriesNames, root : {0}, local : {<<>>},
                      val : {0}, kids : {0}]]
    /\ mu = newMutex
    /\ additions = <<>> /\ returned = <<>> /\ CodecIdle /\ made = <<>>
    /\ BuilderIdle /\ DispatcherIdle

seriesUnchanged == <<builderVars, dispatcherVars, codecVars, additions, returned, made>>

\* ret := newDatumBuilder(drb.errs, drb.st)
SNew(w) ==
    /\ procs[w].pc = "new"
    /\ drb' = [drb EXCEPT !.datums = Append(@, newDatumBuilder)]
    /\ procs' = [procs EXCEPT ![w].pc = "lock", ![w].root = Len(drb.datums) + 1]
    /\ UNCHANGED <<mu, seriesUnchanged>>

\* drb.mu.Lock()
SLock(w) ==
    /\ procs[w].pc = "lock"
    /\ lockFree(mu)
    /\ mu' = [mu EXCEPT !.writer = w]
    /\ procs' = [procs EXCEPT ![w].pc = "read"]
    /\ UNCHANGED <<drb, seriesUnchanged>>

\* append(drb.d.DataSeries, ds): the slice is read
SRead(w) ==
    /\ procs[w].pc = "read"
    /\ procs' = [procs EXCEPT ![w].pc = "write", ![w].local = drb.d.DataSeries]
    /\ UNCHANGED <<drb, mu, seriesUnchanged>>

\* drb.d.DataSeries = ...: the appended slice is stored
SWrite(w) ==
    /\ procs[w].pc = "write"
    /\ drb' = [drb EXCEPT !.d.DataSeries =
                  Append(procs[w].local,
                         [SeriesName |-> procs[w].SeriesName, Root |-> procs[w].root])]
    /\ procs' = [procs EXCEPT ![w].pc = "unlock"]
    /\ UNCHANGED <<mu, seriesUnchanged>>

\* drb.mu.Unlock(); return ret
SUnlock(w) ==
    /\ procs[w].pc = "unlock"
    /\ mu' = [mu EXCEPT !.writer = 0]
    /\ procs' = [procs EXCEPT ![w].pc = "built"]
    /\ UNCHANGED <<drb, seriesUnchanged>>

\* the worker sets a property of its series' root
SWith(w, value) ==
    /\ procs[w].pc = "built"
    /\ drb' = With(drb, procs[w].root, <<IntegerProperty(WorkerKeys[w], value)>>)
    /\ procs' = [procs EXCEPT ![w].val = value]
    /\ UNCHANGED <<mu, seriesUnchanged>>

\* the worker adds a child to its series' root
SChild(w) ==
    /\ procs[w].pc = "built"
    /\ procs[w].kids = 0
    /\ drb' = Child(drb, procs[w].root)
    /\ procs' = [procs EXCEPT ![w].kids = @ + 1]
    /\ UNCHANGED <<mu, seriesUnchanged>>

NextSeries ==
    \/ \E w \in Workers : SNew(w)
    \/ \E w \in Workers : SLock(w)
    \/ \E w \in Workers : SRead(w)
    \/ \E w \in Workers : SWrite(w)
    \/ \E w \in Workers : SUnlock(w)
    \/ \E w \in Workers, value \in WorkerValues : SWith(w, value)
    \/ \E w \in Workers : SChild(w)

SpecSeries == InitSeries /\ [][NextSeries]_vars

\* the workers whose DataSeries call has stored its series
Stored == {w \in Workers : procs[w].pc \in {"unlock", "built"}}

\* the properties a Datum has after its worker's updates alone
OwnProperties(w, value) ==
    IF value = 0 THEN EmptyMap
    ELSE MapSet(EmptyMap, drb.st.stringsToIndices[WorkerKeys[w]], IntegerValue(value))

\* the Datums of a worker's series: the root and its children
Subtree(w) ==
    IF procs[w].root = 0 THEN {}
    ELSE {procs[w].root} \cup Range(drb.datums[procs[w].root].Children)

\* C17: whatever the interleaving, the response holds one DataSeries entry for each
\* DataSeries call that has stored its series and no other, so n entries once the n
\* workers have returned; the entry of a worker has the SeriesName of its request and
\* a root Datum no other entry has; and the Datums of a worker's series hold what
\* that worker's own updates put there, untouched by the other workers' updates.
C17_ConcurrentSeriesAreAllKeptAndIndependent ==
    LET series == drb.d.DataSeries
    IN /\ mu.writer = 0 => Len(series) = Cardinality(Stored)
       /\ (\A w \in Workers : procs[w].pc = "built") => Len(series) = MaxWorkers
       /\ \A i, j \in DOMAIN series : series[i].Root = series[j].Root => i = j
       /\ \A w \in Stored :
             \E i \in DOMAIN series :
                /\ series[i].Root = procs[w].root
                /\ series[i].SeriesName = procs[w].SeriesName
       /\ \A w, u \in Workers : w # u => Subtree(w) \cap Subtree(u) = {}
       /\ \A w \in Workers : procs[w].root # 0 =>
             LET root == drb.datums[procs[w].root]
             IN /\ root.Properties = OwnProperties(w, procs[w].val)
                /\ Len(root.Children) = procs[w].kids
                /\ \A k \in 1..Len(root.Children) :
                      drb.datums[root.Children[k]] = newDatumBuilder

\* both workers allocated their roots before either took the lock, the second to
\* allocate stored its series first, and each has since set a property of its own
\* root and added a child to it
C17_Witness ==
    /\ \A w \in 1..2 : procs[w].pc = "built" /\ procs[w].val = w /\ procs[w].kids > 0
    /\ procs[1].root = 1 /\ procs[2].root = 2
    /\ Len(drb.d.DataSeries) >= 2
    /\ drb.d.DataSeries[1].Root = 2
    /\ drb.d.DataSeries[2].Root = 1
    /\ procs[1].SeriesName = procs[2].SeriesName

----------------------------------------------------------------------------
(* Properties of SpecCodec about timestamps.                               *)

\* C22: for every time t, the Value TimestampValue(t) stores a nanosecond remainder
\* in [0, 1e9), and ExpectTimestampValue applied to it returns the instant t.
C22_TimestampKeepsInstant ==
    \A t \in Times :
        subject = TimestampValue(t) =>
            /\ subject.V[2] >= 0 /\ subject.V[2] < NanosPerSecond
            /\ (got.T = TimestampValueType => got.err = NilErr /\ got.V = <<t>>)

----------------------------------------------------------------------------
(* SpecDecode: UnmarshalJSON applied to a JSON document that need not have *)
(* been written by MarshalJSON.                                            *)

WirePayloads ==
    {JNull, JNumber(<<"5">>), JNumber(<<"1", ".", "5">>), JString(<<"z">>),
     JArray(<<>>), JArray(<<JNumber(<<"1">>)>>), JArray(<<JString(<<"z">>)>>),
     JArray(<<JNumber(<<"1">>), JNumber(<<"2">>)>>),
     JArray(<<JNumber(<<"1">>), JString(<<"z">>)>>),
     JArray(<<JNumber(<<"1">>), JNumber(<<"2">>), JNumber(<<"3">>)>>)}

WireTags == {JNumber(FormatInt(t)) : t \in 0..(TimestampValueType + 1)}

WireDocs ==
    {JArray(<<t, p>>) : t \in WireTags, p \in WirePayloads}
    \cup {JArray(<<t>>) : t \in WireTags}
    \cup {JNull, JArray(<<>>), JNumber(<<"1">>),
          JArray(<<JString(<<"1">>), JNumber(<<"5">>)>>)}

InitDecode ==
    /\ wire \in {[done |-> TRUE, ok |-> TRUE, json |-> doc] : doc \in WireDocs}
    /\ subject = NoValue /\ decoded = NoDecoded /\ got = NoGot
    /\ drb = NewDataResponseBuilder
    /\ additions = <<>> /\ returned = <<>> /\ ProcIdle /\ made = <<>>
    /\ BuilderIdle /\ DispatcherIdle

\* v.UnmarshalJSON(data)
WUnmarshal ==
    /\ ~decoded.done
    /\ LET u == UnmarshalJSON(wire.json)
       IN decoded' = [done |-> TRUE, panic |-> u.panic, v |-> u.v, err |-> u.err]
    /\ UNCHANGED <<drb, subject, wire, got, additions, returned, procVars, made,
                   builderVars, dispatcherVars>>

NextDecode == WUnmarshal

SpecDecode == InitDecode /\ [][NextDecode]_vars

IsInteger(tv) == tv.j = "number" /\ Int64Of(tv.lit).err = NilErr

\* the shape of payload the tag asks for
ShapeMatches(t, tv) ==
    CASE t = StringValueType -> tv.j = "string"
      [] t \in {StringIndexValueType, IntegerValueType, DurationValueType} -> IsInteger(tv)
      [] t = DoubleValueType -> tv.j = "number"
      [] t = StringsValueType ->
            tv.j = "array" /\ \A i \in DOMAIN tv.a : tv.a[i].j = "string"
      [] t \in {StringIndicesValueType, IntegersValueType} ->
            tv.j = "array" /\ \A i \in DOMAIN tv.a : IsInteger(tv.a[i])
      [] t = TimestampValueType ->
            tv.j = "array" /\ Len(tv.a) = 2 /\ \A i \in DOMAIN tv.a : IsInteger(tv.a[i])
      [] OTHER -> TRUE

\* an array with fewer than two elements, or a payload of another shape than its
\* tag asks for
Malformed(doc) ==
    \/ doc.j = "array" /\ Len(doc.a) < 2
    \/ /\ doc.j = "array" /\ Len(doc.a) >= 2
       /\ IsInteger(doc.a[1])
       /\ ~ShapeMatches(Int64Of(doc.a[1].lit).n, doc.a[2])

\* C21: decoding a document whose payload does not have the shape its tag asks for,
\* or that has fewer than two elements, returns an error and no Value, and does
\* not panic.
C21_MalformedPayloadIsRejected ==
    (decoded.done /\ Malformed(wire.json)) =>
        /\ ~decoded.panic
        /\ decoded.err # NilErr
        /\ decoded.v = NoValue

----------------------------------------------------------------------------
(* SpecUpdates: With calls on the root of one series, their updates drawn  *)
(* from every kind of PropertyUpdate the model has.  As in SpecBuild a run *)
(* observes one call and ends there.                                       *)

MaxCallLen == 2

\* the PropertyUpdates the caller picks from
CallUpdates ==
    {IntegerProperty("x", 5),
     IntegerProperty("y", 10),
     StringsProperty("x", <<"a">>),
     StringsPropertyExtended("x", <<"b">>),
     ErrorProperty(Oops),
     EmptyUpdate,
     Chain(<<ErrorProperty(Oops), IntegerProperty("y", 10)>>),
     Chain(<<Nothing("x"), IntegerProperty("x", 5)>>),
     IfElse(TRUE, EmptyUpdate, IntegerProperty("y", 10)),
     IfElse(FALSE, EmptyUpdate, IntegerProperty("y", 10))}

CallLists == SeqsUpTo(CallUpdates, MaxCallLen) \ {<<>>}

\* drb := NewDataResponseBuilder(); db := drb.DataSeries(seriesReq)
InitUpdates ==
    /\ drb = DataSeries(NewDataResponseBuilder, SeriesRequest("series", "1"))
    /\ BuilderIdle /\ STIdle /\ DispatcherIdle

\* db.With(updates...)
UWith(updates, observe) ==
    /\ last = NoCall
    /\ calls < MaxWith
    /\ ~drb.panicked
    /\ drb' = With(drb, 1, updates)
    /\ last' = Observed(observe, [op |-> "With", n |-> 1, updates |-> updates, pre |-> drb])
    /\ calls' = calls + 1
    /\ UNCHANGED <<result, written, failed, stVars, dispatcherVars>>

NextUpdates ==
    last = NoCall /\ calls < MaxWith /\ ~drb.panicked
       /\ \E updates \in CallLists, observe \in BOOLEAN : UWith(updates, observe)

SpecUpdates == InitUpdates /\ [][NextUpdates]_vars

\* the Go type of the payload a tag names
Representation(t) ==
    CASE t = StringIndexValueType -> "int64"
      [] t = IntegerValueType -> "int64"
      [] t = StringIndicesValueType -> "[]int64"

\* C23: every Value stored in a node has a payload of the representation its tag
\* names, and a call of one update that fails leaves the node's Values as they were.
C23_TagDeterminesRepresentation ==
    /\ \A n \in DOMAIN drb.datums :
          \A k \in DOMAIN drb.datums[n].Properties :
             drb.datums[n].Properties[k].R = Representation(drb.datums[n].Properties[k].T)
    /\ (/\ last.op = "With"
        /\ Len(last.updates) = 1
        /\ last.updates[1].op \in {"ErrorProperty", "StringsPropertyExtended"}
        /\ Len(drb.errs.errs) > Len(last.pre.errs.errs)) =>
           drb.datums = last.pre.datums

\* u is StringsPropertyExtended on a key of node n that holds a value of another
\* type than a string-index list
ExtendsOtherType(b, n, u) ==
    /\ u.op = "StringsPropertyExtended"
    /\ LET k == lookupStringIndex(b.st, u.key)
       IN /\ k.ok
          /\ k.idx \in DOMAIN b.datums[n].Properties
          /\ b.datums[n].Properties[k.idx].T # StringIndicesValueType

\* C24: when the k-th update of a With call that runs its updates is a
\* StringsPropertyExtended on a key holding a value of another type, and no update
\* before it failed, the call adds one error to the sink and applies none of the
\* updates after the k-th: it leaves the builder as the call with the first k
\* updates alone leaves it.
C24_ExtendMismatchStopsTheCall ==
    (last.op = "With" /\ ~last.pre.errs.hasError) =>
        \A k \in DOMAIN last.updates :
            LET before == With(last.pre, last.n, SubSeq(last.updates, 1, k - 1))
            IN (/\ ~before.errs.hasError /\ ~before.panicked
                /\ ExtendsOtherType(before, last.n, last.updates[k])) =>
                   /\ Len(drb.errs.errs) = 1
                   /\ drb = With(last.pre, last.n, SubSeq(last.updates, 1, k))

\* C25: With(Chain(u1..un), v1..vm) leaves the builder, its error sink included, as
\* With(u1..un, v1..vm) leaves it.
C25_ChainIsItsUpdatesInline ==
    (last.op = "With" /\ last.updates[1].op = "Chain") =>
        drb = With(last.pre, last.n, last.updates[1].ups \o Tail(last.updates))

\* the list without its nil updates, those inside a Chain and those an IfElse
\* selected included
RECURSIVE WithoutNil(_)
WithoutNil(updates) ==
    IF updates = <<>> THEN <<>>
    ELSE LET u == Head(updates)
             rest == WithoutNil(Tail(updates))
         IN CASE u.op = "nil" -> rest
              [] u.op = "Chain" -> <<Chain(WithoutNil(u.ups))>> \o rest
              [] u.op = "IfElse" /\ u.ups[1].op = "nil" -> rest
              [] OTHER -> <<u>> \o rest

\* C26: a With call does not panic on a nil PropertyUpdate and leaves the builder
\* as the call without the nil updates leaves it.
C26_NilUpdateDoesNothing ==
    last.op = "With" =>
        /\ ~drb.panicked
        /\ drb = With(last.pre, last.n, WithoutNil(last.updates))

----------------------------------------------------------------------------
(* Properties of SpecBuild about the shape of the Datums.                  *)

\* the Datums the given ones reach through Children, themselves included
RECURSIVE Closure(_)
Closure(nodes) ==
    LET next == nodes \cup UNION {Range(drb.datums[m].Children) : m \in nodes}
    IN IF next = nodes THEN nodes ELSE Closure(next)

Descendants(n) == Closure(Range(drb.datums[n].Children))

\* every reference to a Datum the builder holds: the roots of the series list, then
\* the Children of the Datums 1..n
RECURSIVE ChildRefs(_)
ChildRefs(n) == IF n = 0 THEN <<>> ELSE ChildRefs(n - 1) \o drb.datums[n].Children

Refs == [i \in DOMAIN drb.d.DataSeries |-> drb.d.DataSeries[i].Root] \o ChildRefs(Len(drb.datums))

\* C27: the Datums of a builder form a forest: every Datum is referred to exactly
\* once, as the root of one DataSeries or at one position of one parent's Children;
\* no Datum is reached from two series roots; and no Datum is its own descendant.
C27_DatumsFormAForest ==
    LET refs == Refs
        reach == [i \in DOMAIN drb.d.DataSeries |-> Closure({drb.d.DataSeries[i].Root})]
    IN /\ \A n \in DOMAIN drb.datums :
             /\ Cardinality({i \in DOMAIN refs : refs[i] = n}) = 1
             /\ n \notin Descendants(n)
       /\ \A i, j \in DOMAIN reach : i < j => reach[i] \cap reach[j] = {}

\* two series, the root of the second with a child, and a property set by With
C27_Witness ==
    /\ Len(drb.d.DataSeries) = 2
    /\ Len(drb.datums) = 3
    /\ drb.datums[drb.d.DataSeries[2].Root].Children = <<3>>
    /\ \E n \in DOMAIN drb.datums : drb.datums[n].Properties # EmptyMap

----------------------------------------------------------------------------
(* SpecRequests: one QueryDispatcher handling several requests, one after  *)
(* the other.  The history variables tell what the handlers of the current *)
(* request supplied: additions the strings, made the names of the series   *)
(* they created, failed the dataSources whose With reported an error;      *)
(* returned tells for each earlier request whether it failed.              *)

MaxRequests == 2
MaxRequestOps == 2

\* a HandleDataRequest that goes on with the builder of the request before
requestBuilder_Reused(b) == b

\* drb := util.NewDataResponseBuilder()
requestBuilder(b) == NewDataResponseBuilder

RequestUpdateLists ==
    {<<IntegerProperty("x", 5)>>, <<IntegerProperty("y", 5)>>, <<ErrorProperty(Oops)>>}

InitRequests ==
    /\ dss \in {<<<<"Alpha">>, <<"Beta">>>>, <<<<"Alpha">>>>}
    /\ qd = New(dss)
    /\ pc = "registered"
    /\ drb = NewDataResponseBuilder
    /\ req = <<>>
    /\ groupedReqs = EmptyMap
    /\ hstate = [ds \in DOMAIN dss |-> "idle"]
    /\ hops = [ds \in DOMAIN dss |-> 0]
    /\ owned = [ds \in DOMAIN dss |-> {}]
    /\ invocations = [ds \in DOMAIN dss |-> <<>>]
    /\ finished = <<>>
    /\ errg = newErrgroup
    /\ BuilderIdle /\ STIdle

\* HandleDataRequest is called, after the call before it has returned
QHandleDataRequest(seriesRequests) ==
    /\ pc \in {"registered", "settled"}
    /\ calls < MaxRequests
    /\ calls' = calls + 1
    /\ returned' = IF pc = "settled" THEN Append(returned, result.err # NilErr) ELSE returned
    /\ req' = seriesRequests
    /\ drb' = requestBuilder(drb)
    /\ hstate' = [ds \in DOMAIN dss |-> "idle"]
    /\ hops' = [ds \in DOMAIN dss |-> 0]
    /\ owned' = [ds \in DOMAIN dss |-> {}]
    /\ invocations' = [ds \in DOMAIN dss |-> <<>>]
    /\ finished' = <<>>
    /\ additions' = <<>> /\ made' = <<>> /\ failed' = {}
    /\ LET g == groupSeriesReqs(qd.dataSeriesQueryHandlers, seriesRequests, EmptyMap)
       IN IF g.ok
          THEN /\ groupedReqs' = g.groupedReqs
               /\ errg' = newErrgroup
               /\ pc' = "launching"
               /\ result' = NoResult
          ELSE /\ result' = [returned |-> TRUE, data |-> NilData, err |-> g.err]
               /\ pc' = "settled"
               /\ groupedReqs' = EmptyMap
               /\ UNCHANGED errg
    /\ UNCHANGED <<dss, qd, last, written, codecVars, procVars>>

\* a handler calls drb.DataSeries for its i-th request
QDataSeries(ds, i) ==
    /\ hstate[ds] = "running"
    /\ TotalOps < MaxRequestOps
    /\ drb' = DataSeries(drb, invocations[ds][1][i])
    /\ owned' = [owned EXCEPT ![ds] = @ \cup {Len(drb.datums) + 1}]
    /\ hops' = [hops EXCEPT ![ds] = @ + 1]
    /\ made' = Append(made, invocations[ds][1][i].SeriesName)
    /\ UNCHANGED <<dss, qd, pc, req, groupedReqs, hstate, finished, invocations, errg,
                   builderVars, additions, returned, codecVars, procVars>>

\* a handler calls With on a builder it holds
QWith(ds, n, updates) ==
    /\ hstate[ds] = "running"
    /\ TotalOps < MaxRequestOps
    /\ drb' = With(drb, n, updates)
    /\ hops' = [hops EXCEPT ![ds] = @ + 1]
    /\ additions' = IF updates[1].key # "" THEN Append(additions, updates[1].key)
                    ELSE additions
    /\ failed' = IF Len(drb'.errs.errs) > Len(drb.errs.errs) THEN failed \cup {ds} ELSE failed
    /\ UNCHANGED <<dss, qd, pc, req, groupedReqs, hstate, owned, finished, invocations,
                   errg, result, last, written, calls, returned, made, codecVars, procVars>>

NextRequests ==
    \/ pc \in {"registered", "settled"} /\ calls < MaxRequests
          /\ \E seriesRequests \in Requests : QHandleDataRequest(seriesRequests)
    \/ \E ds \in DOMAIN groupedReqs : DGo(ds)
    \/ \E ds \in Running : \E i \in DOMAIN invocations[ds][1] : QDataSeries(ds, i)
    \/ \E ds \in Running : \E n \in owned[ds] : \E updates \in RequestUpdateLists :
          QWith(ds, n, updates)
    \/ \E ds \in Running : \E err \in HandlerErrors(ds) : HReturn(ds, err)
    \/ DWait

SpecRequests == InitRequests /\ [][NextRequests]_vars

\* C28: whatever the requests before it were and however they ended, a response
\* holds the series its own request's handlers created and no others, on Datums
\* allocated for this request, and only strings they supplied; a request with only
\* supported queries whose handlers all returned nil and reported no error through
\* With returns Data and no error; and the dispatcher's registration stays what New
\* made of the dataSources.
C28_RequestsShareNothing ==
    /\ qd = New(dss)
    /\ (pc = "settled" /\ result.err = NilErr) =>
          /\ ~result.data.nil
          /\ Len(result.data.DataSeries) = Len(made)
          /\ \A i \in DOMAIN made : result.data.DataSeries[i].SeriesName = made[i]
          /\ Len(result.data.datums) = Len(made)
          /\ Range(result.data.StringTable) \subseteq Range(additions)
    /\ (pc = "settled" /\ ~HasUnknownQuery /\ AllHandlersReturnedNil /\ failed = {}) =>
          result.err = NilErr

\* the first request failed; the second created a series, set a property and
\* returned its Data
C28_Witness ==
    /\ pc = "settled"
    /\ calls = 2
    /\ returned = <<TRUE>>
    /\ result.err = NilErr
    /\ made # <<>>
    /\ result.data.StringTable = <<"y">>

----------------------------------------------------------------------------
(* SpecSink: goroutines recording errors with errors.add while Data is     *)
(* called on the builder.  mu is errs.mu; Data takes no lock.              *)

SinkErrors == <<<<"first">>, <<"second">>, <<"third">>>>

InitSink ==
    /\ drb = NewDataResponseBuilder
    /\ procs = [g \in Procs |-> [pc |-> "idle", calls |-> 0]]
    /\ mu = newMutex
    /\ additions = <<>> /\ returned = <<>> /\ CodecIdle /\ made = <<>>
    /\ BuilderIdle /\ DispatcherIdle

sinkUnchanged == <<written, failed, calls, additions, returned, codecVars, made, dispatcherVars>>

\* errs.mu.Lock()
ALock(g) ==
    /\ procs[g].pc = "idle"
    /\ procs[g].calls < MaxCalls
    /\ lockFree(mu)
    /\ mu' = [mu EXCEPT !.writer = g]
    /\ procs' = [procs EXCEPT ![g].pc = "locked"]
    /\ UNCHANGED <<drb, result, last, sinkUnchanged>>

\* errs.hasError = true
AMark(g) ==
    /\ procs[g].pc = "locked"
    /\ drb' = [drb EXCEPT !.errs.hasError = TRUE]
    /\ procs' = [procs EXCEPT ![g].pc = "marked"]
    /\ UNCHANGED <<mu, result, last, sinkUnchanged>>

\* errs.errs = append(errs.errs, err), with the deferred Unlock
AAppend(g) ==
    /\ procs[g].pc = "marked"
    /\ drb' = [drb EXCEPT !.errs.errs = Append(@, SinkErrors[g])]
    /\ mu' = [mu EXCEPT !.writer = 0]
    /\ procs' = [procs EXCEPT ![g].pc = "idle", ![g].calls = @ + 1]
    /\ UNCHANGED <<result, last, sinkUnchanged>>

\* drb.Data(), which reads hasError and errs without the lock
SData ==
    /\ LET r == Data(drb)
       IN /\ drb' = r.b
          /\ result' = [returned |-> TRUE, data |-> r.data, err |-> r.err]
    /\ last' = [op |-> "Data", n |-> 0, updates |-> <<>>, pre |-> drb]
    /\ UNCHANGED <<procs, mu, sinkUnchanged>>

NextSink ==
    \/ \E g \in Procs : ALock(g)
    \/ \E g \in Procs : AMark(g)
    \/ \E g \in Procs : AAppend(g)
    \/ SData

SpecSink == InitSink /\ [][NextSink]_vars

\* C29: every Data call returns exactly one of a non-nil Data and a non-nil error,
\* and a Data call made after an error was recorded returns an error.
C29_DataReturnsDataOrError ==
    result.returned =>
        /\ result.data.nil <=> result.err # NilErr
        /\ Len(last.pre.errs.errs) > 0 => result.err # NilErr

----------------------------------------------------------------------------
(* SpecStrings: workers setting string properties, each on the root of its *)
(* own series, all through the one string table.  A property update is a   *)
(* series of stringIndex calls, each atomic (see SpecLock), followed by    *)
(* the write of the worker's own Datum; the workers' calls interleave.     *)
(* Data is called once every worker has returned.                          *)

MaxStringCalls == 3

StringUpdates ==
    {StringProperty("n", "a"), StringProperty("n", "b"),
     StringsProperty("t", <<"b", "a">>), StringsPropertyExtended("t", <<"n", "b">>)}

\* the builder after DataSeries calls for the workers 1..w
RECURSIVE seriesFor(_)
seriesFor(w) ==
    IF w = 0 THEN NewDataResponseBuilder
    ELSE DataSeries(seriesFor(w - 1), SeriesRequest("series", ToString(w)))

InitStrings ==
    /\ drb = seriesFor(MaxWorkers)
    /\ procs = [w \in Workers |->
                   [pc |-> "idle", u |-> EmptyUpdate, extends |-> FALSE, todo |-> <<>>,
                    idxs |-> <<>>, calls |-> 0, want |-> EmptyMap]]
    /\ mu = newMutex
    /\ additions = <<>> /\ returned = <<>> /\ CodecIdle /\ made = <<>>
    /\ BuilderIdle /\ DispatcherIdle

stringsUnchanged ==
    <<last, written, failed, calls, additions, returned, codecVars, made, mu, dispatcherVars>>

\* the key of u is set on Datum n of b
HasKey(b, n, key) ==
    LET k == lookupStringIndex(b.st, key)
    IN k.ok /\ k.idx \in DOMAIN b.datums[n].Properties

\* the strings the update passes to stringIndex, in the order of the calls
InternOrder(u, extends) ==
    CASE u.op = "StringProperty" -> <<u.key>> \o u.strs
      [] u.op = "StringsProperty" -> u.strs \o <<u.key>>
      [] u.op = "StringsPropertyExtended" ->
            IF extends THEN <<u.key>> \o u.strs ELSE <<u.key>> \o u.strs \o <<u.key>>

\* what the caller has asked the key to hold once the update is applied
Wanted(want, u, extends) ==
    CASE u.op = "StringProperty" -> MapSet(want, u.key, [list |-> FALSE, strs |-> u.strs])
      [] u.op = "StringsProperty" -> MapSet(want, u.key, [list |-> TRUE, strs |-> u.strs])
      [] u.op = "StringsPropertyExtended" ->
            IF extends
            THEN MapSet(want, u.key, [list |-> TRUE, strs |-> want[u.key].strs \o u.strs])
            ELSE MapSet(want, u.key, [list |-> TRUE, strs |-> u.strs])

\* the With calls the workers have made so far
StringCalls == SumTo([w \in Workers |-> procs[w].calls + IF procs[w].pc = "idle" THEN 0 ELSE 1],
                     MaxWorkers)

\* db.With(u) is called and finds no error in the sink
TCall(w, u) ==
    /\ procs[w].pc = "idle"
    /\ StringCalls < MaxStringCalls
    /\ ~drb.errs.hasError
    /\ ~result.returned
    /\ LET extends == u.op = "StringsPropertyExtended" /\ HasKey(drb, w, u.key)
       IN procs' = [procs EXCEPT ![w].pc = "interning", ![w].u = u,
                                 ![w].extends = extends,
                                 ![w].todo = InternOrder(u, extends), ![w].idxs = <<>>,
                                 ![w].want = Wanted(@, u, extends)]
    /\ UNCHANGED <<drb, result, stringsUnchanged>>

\* db.st.stringIndex(str) for the next string of the update
TIntern(w) ==
    /\ procs[w].pc = "interning"
    /\ procs[w].todo # <<>>
    /\ LET r == stringIndex(drb.st, Head(procs[w].todo))
       IN /\ drb' = [drb EXCEPT !.st = r.st]
          /\ procs' = [procs EXCEPT ![w].todo = Tail(@), ![w].idxs = Append(@, r.idx)]
    /\ UNCHANGED <<result, stringsUnchanged>>

\* the assignment to db.valsByKey[...], or to val.V when the update extends a list
TStore(w) ==
    /\ procs[w].pc = "interning"
    /\ procs[w].todo = <<>>
    /\ LET u == procs[w].u
           idxs == procs[w].idxs
           n == Len(idxs)
       IN drb' =
             CASE u.op = "StringProperty" ->
                     [drb EXCEPT !.datums[w].Properties =
                         MapSet(@, idxs[1], StringIndexValue(idxs[2]))]
               [] u.op = "StringsProperty" ->
                     [drb EXCEPT !.datums[w].Properties =
                         MapSet(@, idxs[n], StringIndicesValue(SubSeq(idxs, 1, n - 1)))]
               [] u.op = "StringsPropertyExtended" /\ ~procs[w].extends ->
                     [drb EXCEPT !.datums[w].Properties =
                         MapSet(@, idxs[n], StringIndicesValue(SubSeq(idxs, 2, n - 1)))]
               [] u.op = "StringsPropertyExtended" /\ procs[w].extends ->
                     [drb EXCEPT !.datums[w].Properties[idxs[1]].V = @ \o SubSeq(idxs, 2, n)]
    /\ procs' = [procs EXCEPT ![w].pc = "idle", ![w].calls = @ + 1]
    /\ UNCHANGED <<result, stringsUnchanged>>

\* drb.Data(), after the workers have returned
TData ==
    /\ \A w \in Workers : procs[w].pc = "idle"
    /\ ~result.returned
    /\ LET r == Data(drb)
       IN /\ drb' = r.b
          /\ result' = [returned |-> TRUE, data |-> r.data, err |-> r.err]
    /\ UNCHANGED <<procs, stringsUnchanged>>

NextStrings ==
    \/ \E w \in Workers, u \in StringUpdates : TCall(w, u)
    \/ \E w \in Workers : TIntern(w)
    \/ \E w \in Workers : TStore(w)
    \/ TData

SpecStrings == InitStrings /\ [][NextStrings]_vars

\* the string the returned table holds at index i, <<>> when i is not an index of it
StringAt(data, i) ==
    IF i + 1 \in DOMAIN data.StringTable THEN <<data.StringTable[i + 1]>> ELSE <<>>

\* C30: in a Data returned without error, whatever the interleaving of the workers'
\* stringIndex calls was, every property key of every Datum is an index of the
\* returned StringTable at which the table holds a key its worker supplied, and the
\* string index, or each element of the string-index list, stored under it is an
\* index at which the table holds the string the worker supplied for that key, in
\* the order supplied; and every key supplied is there.
C30_IndicesResolveToSuppliedStrings ==
    (result.returned /\ result.err = NilErr) =>
        \A w \in Workers :
            LET props == result.data.datums[w].Properties
                want == procs[w].want
            IN /\ \A k \in DOMAIN props :
                     /\ StringAt(result.data, k) # <<>>
                     /\ StringAt(result.data, k)[1] \in DOMAIN want
                     /\ LET asked == want[StringAt(result.data, k)[1]]
                        IN /\ props[k].T = IF asked.list THEN StringIndicesValueType
                                           ELSE StringIndexValueType
                           /\ Len(props[k].V) = Len(asked.strs)
                           /\ \A i \in DOMAIN props[k].V :
                                 StringAt(result.data, props[k].V[i]) = <<asked.strs[i]>>
               /\ \A key \in DOMAIN want :
                     \E k \in DOMAIN props : StringAt(result.data, k) = <<key>>

\* the two workers interned their strings in turns, so that neither's indices are
\* consecutive, one of them extended a list, and Data returned
C30_Witness ==
    /\ result.returned /\ result.err = NilErr
    /\ result.data.StringTable = <<"n", "t", "a", "b">>
    /\ procs[1].want = ("n" :> [list |-> FALSE, strs |-> <<"a">>])
    /\ "t" \in DOMAIN procs[2].want
    /\ procs[2].want["t"].strs = <<"n", "b", "n", "b">>

====
